---- MODULE Spec2Model ----
(***************************************************************************)
(* Conway's Game of Life: the generation engine of bevy-game-of-life       *)
(* (systems/game_of_life.rs) and the multi-simulation gRPC service of      *)
(* gol-bevy (grpc/service.rs, resources/simulations.rs).                   *)
(***************************************************************************)
EXTENDS Integers, Sequences, FiniteSets, TLC

VARIABLES
    \* ---- generation engine (pure functions applied to a drawn input) ----
    live_cells,       \* input: the set of live coordinates
    boundary,         \* input: [kind, width, height, wrap_edges]
    next_generation,  \* output of the applied function (as a set)
    epc,              \* "off" | "input" | the function applied last
    input_cells,      \* the live set the run started from
    iterations,       \* number of transitions applied since input_cells
    coordinate,       \* input: the position handed to the wrap functions
    wrapped,          \* output of the wrap function applied, or None
    \* ---- gRPC service (GameOfLifeServiceImpl) ----
    simulations,      \* Simulations.simulations: id -> SimulationData
    uuid_count,       \* number of ids handed out by Uuid::new_v4()
    lock_holder,      \* the task owning the guard of the tokio Mutex, or NoTask
    rq,               \* request tasks: position, request, locals, response
    st,               \* stream tasks: position, request, the item at the
                      \* yield it is suspended at
    delete_ok,        \* ids for which DeleteSimulation answered success = true
    reply,            \* the response returned by the step just taken, or None
    \* ---- ECS world of gol-bevy (systems/) ----
    entities,         \* World: Entity -> [position, cell_state]
    simulation_state, \* Res<SimulationState>: [generation]
    schedule,         \* the system of the chain that runs next, the number
                      \* of updates run, and the entity positions and the
                      \* generation the running update started from
    \* ---- GridState of bevy-game-of-life (resources/grid_state.rs) ----
    grid_state,       \* [live_cells, pending_births, pending_deaths, dirty]
    grid_op           \* the method called last and its argument, and the
                      \* call before it

\* The ECS world and the GridState take part in their own specifications
\* only; every action of the engine and of the service leaves them alone.
wvars == <<entities, simulation_state, schedule>>
gvars == <<grid_state, grid_op>>
evars == <<live_cells, boundary, next_generation, epc, input_cells, iterations,
           coordinate, wrapped, wvars, gvars>>
svars == <<simulations, uuid_count, lock_holder, rq, st, delete_ok, reply,
           wvars, gvars>>
vars == <<evars, svars>>

\* Largest grid dimension of the drawn engine inputs.
MaxDim == 3

\* Option<i32>: None is the empty sequence, Some(v) is <<v>>.
None == <<>>
Some(v) == <<v>>

(***************************************************************************)
(* systems/game_of_life.rs                                                 *)
(***************************************************************************)

\* Rust's % on i32: truncated remainder, the sign follows the dividend.
RustRem(a, n) == IF a >= 0 THEN a % n ELSE 0 - ((0 - a) % n)

\* The eight Moore offsets (dx, dy), (0,0) skipped.
NeighborOffsets == ((-1..1) \X (-1..1)) \ {<<0, 0>>}

\* The nine offsets of the candidate loops (the cell itself included).
BlockOffsets == (-1..1) \X (-1..1)

should_cell_survive_two_only(currently_alive, neighbor_count) ==
    \/ currently_alive /\ neighbor_count = 2
    \/ ~currently_alive /\ neighbor_count = 3

should_cell_survive(currently_alive, neighbor_count) ==
    \/ currently_alive /\ neighbor_count \in {2, 3}
    \/ ~currently_alive /\ neighbor_count = 3

InBounds_inclusive(x, y, width, height) ==
    x >= 0 /\ x <= width /\ y >= 0 /\ y <= height

InBounds(x, y, width, height) ==
    x >= 0 /\ x < width /\ y >= 0 /\ y < height

\* The coordinates of a width x height grid.
Rect(width, height) == (0..(width - 1)) \X (0..(height - 1))

is_valid_coordinate_unchecked(pos, b) == TRUE

is_valid_coordinate(pos, b) ==
    InBounds(pos[1], pos[2], b.width, b.height)

WrapAxis_clamped(c, dim) == IF c < 0 THEN 0 ELSE IF c >= dim THEN dim - 1 ELSE c

\* One axis of the wrap: dim + (c % dim) for c < 0, else c % dim.
WrapAxis(c, dim) == IF c < 0 THEN dim + RustRem(c, dim) ELSE RustRem(c, dim)

wrap_coordinate(pos, b) ==
    <<WrapAxis(pos[1], b.width), WrapAxis(pos[2], b.height)>>

\* GridBoundary::wrap_position (components/grid.rs): the position itself
\* without wrap_edges, else the same arithmetic as wrap_coordinate.
wrap_position(b, pos) ==
    IF ~b.wrap_edges THEN pos
    ELSE <<WrapAxis(pos[1], b.width), WrapAxis(pos[2], b.height)>>

count_live_neighbors_with_self(position, live, wrap_edges) ==
    Cardinality({d \in BlockOffsets :
                   <<position[1] + d[1], position[2] + d[2]>> \in live})

count_live_neighbors(position, live, wrap_edges) ==
    Cardinality({d \in NeighborOffsets :
                   <<position[1] + d[1], position[2] + d[2]>> \in live})

\* One iteration of the dx/dy loop: does this offset add one to the count?
CountsBounded(position, d, live, b) ==
    LET nx == position[1] + d[1]
        ny == position[2] + d[2]
    IN  IF b.wrap_edges
        THEN <<WrapAxis(nx, b.width), WrapAxis(ny, b.height)>> \in live
        ELSE InBounds(nx, ny, b.width, b.height) /\ <<nx, ny>> \in live

count_live_neighbors_bounded(position, live, b) ==
    Cardinality({d \in NeighborOffsets : CountsBounded(position, d, live, b)})

count_live_neighbors_with_wrapping(position, live, grid_width, grid_height) ==
    count_live_neighbors_bounded(position, live,
        [width |-> grid_width, height |-> grid_height, wrap_edges |-> TRUE])

apply_game_of_life_rules_live_only(live, wrap_edges, grid_width, grid_height) ==
    {p \in live : should_cell_survive(TRUE, count_live_neighbors(p, live, FALSE))}

apply_game_of_life_rules(live, wrap_edges, grid_width, grid_height) ==
    LET cells_to_check ==
            UNION {{<<c[1] + d[1], c[2] + d[2]>> : d \in BlockOffsets} : c \in live}
        count(p) ==
            IF wrap_edges /\ grid_width # None /\ grid_height # None
            THEN count_live_neighbors_with_wrapping(p, live, grid_width[1], grid_height[1])
            ELSE count_live_neighbors(p, live, FALSE)
    IN  {p \in cells_to_check : should_cell_survive(p \in live, count(p))}

apply_game_of_life_rules_bounded(live, b) ==
    LET cand(c, d) ==
            LET n == <<c[1] + d[1], c[2] + d[2]>>
            IN  IF b.wrap_edges THEN {wrap_coordinate(n, b)}
                ELSE IF is_valid_coordinate(n, b) THEN {n} ELSE {}
        cells_to_check ==
            live \cup UNION {UNION {cand(c, d) : d \in BlockOffsets} : c \in live}
        checked ==
            IF b.wrap_edges THEN cells_to_check
            ELSE {p \in cells_to_check : is_valid_coordinate(p, b)}
    IN  {p \in checked :
           should_cell_survive(p \in live, count_live_neighbors_bounded(p, live, b))}

(***************************************************************************)
(* resources/simulations.rs, components/cell_state.rs                      *)
(***************************************************************************)

\* Model bounds.
MaxSims == 2        \* simulations ever created
MaxRequests == 1    \* request tasks in flight at once
MaxStreams == 1     \* stream subscriptions
MaxGen == 2         \* generation counters are explored up to this value

\* create_simulation (the handler) rejects dimensions above this.
MaxGridSize == 1000

Requests == {<<"req", i>> : i \in 1..MaxRequests}
Streams == {<<"stream", i>> : i \in 1..MaxStreams}
NoTask == <<"none", 0>>

EmptyMap == [k \in {} |-> 0]
MapPut(f, k, v) == [x \in (DOMAIN f) \cup {k} |-> IF x = k THEN v ELSE f[x]]

\* CellState::new()
CellState_new == [alive |-> TRUE, generation |-> 0, neighbor_count |-> 0]

create_simulation_generation_one(sims, id, width, height, initial_pattern) ==
    MapPut(sims, id, [id |-> id, generation |-> 1, width |-> width,
                      height |-> height, cells |-> EmptyMap,
                      is_running |-> FALSE])

create_simulation_alone(sims, id, width, height, initial_pattern) ==
    MapPut(EmptyMap, id, [id |-> id, generation |-> 0, width |-> width,
                          height |-> height, cells |-> EmptyMap,
                          is_running |-> FALSE])

\* Simulations::create_simulation: a fresh uuid, generation 0, no cells; the
\* initial_pattern argument is not used by the function.
create_simulation(sims, id, width, height, initial_pattern) ==
    MapPut(sims, id, [id |-> id, generation |-> 0, width |-> width,
                      height |-> height, cells |-> EmptyMap,
                      is_running |-> FALSE])

get_simulation_first(sims, id) ==
    IF DOMAIN sims # {} THEN Some(CHOOSE k \in DOMAIN sims : TRUE) ELSE None

\* Simulations::get_simulation / get_simulation_mut: Some(key of the entry
\* the id names) or None.
get_simulation(sims, id) == IF id \in DOMAIN sims THEN Some(id) ELSE None

get_simulation_mut_any(sims, id) ==
    IF DOMAIN sims # {} THEN Some(CHOOSE k \in DOMAIN sims : TRUE) ELSE None

get_simulation_mut(sims, id) == IF id \in DOMAIN sims THEN Some(id) ELSE None

delete_simulation_keeps(sims, id) ==
    [simulations |-> sims, removed |-> id \in DOMAIN sims]

delete_simulation_always_true(sims, id) ==
    [simulations |-> [k \in (DOMAIN sims) \ {id} |-> sims[k]],
     removed |-> TRUE]

\* Simulations::delete_simulation: self.simulations.remove(id).is_some(),
\* the map after the removal and the boolean returned.
delete_simulation(sims, id) ==
    [simulations |-> [k \in (DOMAIN sims) \ {id} |-> sims[k]],
     removed |-> id \in DOMAIN sims]

\* SimulationData::get_live_cells (a Vec in HashMap order: a set here)
get_live_cells(sim) == {p \in DOMAIN sim.cells : sim.cells[p].alive}

\* SimulationData::get_live_cell_count
get_live_cell_count(sim) == Cardinality(get_live_cells(sim))

\* SimulationData::set_cells
set_cells(sim, cells) ==
    [sim EXCEPT !.cells =
        [p \in {c \in cells : InBounds(c[1], c[2], sim.width, sim.height)}
           |-> CellState_new]]

PatternInserted_unchecked(sim, pattern, offset_x, offset_y) ==
    {n \in {<<c[1] + offset_x, c[2] + offset_y>> : c \in pattern} :
        InBounds(n[1], n[2], sim.width, sim.height)}

\* SimulationData::add_pattern: the translated cells that are inserted.
PatternInserted(sim, pattern, offset_x, offset_y) ==
    {n \in {<<c[1] + offset_x, c[2] + offset_y>> : c \in pattern} :
        /\ InBounds(n[1], n[2], sim.width, sim.height)
        /\ n \notin DOMAIN sim.cells}

add_pattern(sim, pattern, offset_x, offset_y) ==
    LET ins == PatternInserted(sim, pattern, offset_x, offset_y)
    IN  [sim |-> [sim EXCEPT !.cells =
                    [p \in (DOMAIN sim.cells) \cup ins |->
                        IF p \in ins THEN CellState_new ELSE sim.cells[p]]],
         cells_added |-> Cardinality(ins)]

(***************************************************************************)
(* grpc/service.rs                                                         *)
(***************************************************************************)

lock_available_always(t, id) == TRUE

lock_available_per_id(t, id) ==
    \/ lock_holder = NoTask
    \/ id # (IF lock_holder \in Requests THEN rq[lock_holder].id
                                          ELSE st[lock_holder].id)

\* self.simulations.lock().await completes for task t only when no task
\* owns the guard: one Mutex guards the whole registry, whatever the id.
lock_available(t, id) == lock_holder = NoTask

\* neighbor_counts without the bounds test of the inline loop.
NeighborCounts_unclipped(sim) ==
    LET pairs == get_live_cells(sim) \X NeighborOffsets
        target(cd) == <<cd[1][1] + cd[2][1], cd[1][2] + cd[2][2]>>
        counted == {target(cd) : cd \in pairs}
    IN  [n \in counted |-> Cardinality({cd \in pairs : target(cd) = n})]

\* The transition coded inline in step_simulation and in stream_simulation,
\* run after simulation.generation was incremented: neighbor_counts gets one
\* increment per (live cell, in-bounds neighbour) pair, new_cells holds the
\* counted positions that pass the rule.
NeighborCounts(sim) ==
    LET pairs == get_live_cells(sim) \X NeighborOffsets
        target(cd) == <<cd[1][1] + cd[2][1], cd[1][2] + cd[2][2]>>
        counted == {target(cd) : cd \in pairs} \cap Rect(sim.width, sim.height)
    IN  [n \in counted |-> Cardinality({cd \in pairs : target(cd) = n})]

InlineNewCells_survivors_only(sim) ==
    LET neighbor_counts == NeighborCounts(sim)
        currently_alive(p) == p \in DOMAIN sim.cells /\ sim.cells[p].alive
    IN  [p \in {q \in DOMAIN neighbor_counts :
                   currently_alive(q) /\ neighbor_counts[q] \in {2, 3}} |->
            [alive |-> TRUE, generation |-> sim.generation,
             neighbor_count |-> neighbor_counts[p]]]

InlineNewCells(sim) ==
    LET neighbor_counts == NeighborCounts(sim)
        currently_alive(p) == p \in DOMAIN sim.cells /\ sim.cells[p].alive
        will_be_alive(p) ==
            IF currently_alive(p)
            THEN neighbor_counts[p] = 2 \/ neighbor_counts[p] = 3
            ELSE neighbor_counts[p] = 3
    IN  [p \in {q \in DOMAIN neighbor_counts : will_be_alive(q)} |->
            [alive |-> TRUE, generation |-> sim.generation,
             neighbor_count |-> neighbor_counts[p]]]

ClampSteps_negative_only(steps) == IF steps < 0 THEN 1 ELSE steps

\* let steps = if req.steps <= 0 { 1 } else { req.steps };
ClampSteps(steps) == IF steps <= 0 THEN 1 ELSE steps

\* The Cell list of a SimulationResponse / SimulationUpdate.
CellList(sim) ==
    {[x |-> p[1], y |-> p[2], alive |-> sim.cells[p].alive,
      neighbors |-> sim.cells[p].neighbor_count] : p \in get_live_cells(sim)}

SimulationResponse(sim) ==
    [status |-> "OK", id |-> sim.id, generation |-> sim.generation,
     live_cells |-> get_live_cell_count(sim),
     grid |-> [width |-> sim.width, height |-> sim.height],
     cells |-> CellList(sim)]

StatusErr_invalid_as_not_found(code) ==
    [status |-> IF code = "InvalidArgument" THEN "NotFound" ELSE code]

\* Err(Status::not_found(..)) / Err(Status::invalid_argument(..)): the code
\* of the failed call.
StatusErr(code) == [status |-> code]

IdleRequest ==
    [pc |-> "idle", kind |-> "none", id |-> 0, arg |-> <<>>, sim |-> 0, steps |-> 0,
     i |-> 0, initial_cells |-> 0, entry |-> None]

IdleStream ==
    [pc |-> "idle", id |-> 0, auto_step |-> FALSE, sim |-> 0, item |-> None]

ServiceInit ==
    /\ simulations = EmptyMap
    /\ uuid_count = 0
    /\ lock_holder = NoTask
    /\ rq = [t \in Requests |-> IdleRequest]
    /\ st = [s \in Streams |-> IdleStream]
    /\ delete_ok = {}
    /\ reply = None

\* ---- inputs of the requests ----
SimIds == 1..MaxSims
CreateArgs ==
    {[width |-> 2, height |-> 2, initial_pattern |-> ""],
     [width |-> 2, height |-> 2, initial_pattern |-> "glider"],
     [width |-> 0, height |-> 2, initial_pattern |-> ""],
     [width |-> 2, height |-> 1001, initial_pattern |-> ""]}
StepArgs == {[steps |-> 0], [steps |-> 2]}
\* Three cells of a 2 x 2 block and, two columns to the right, a fourth cell.
Corner == {<<-1, 0>>, <<0, 0>>, <<-1, 1>>, <<1, 0>>}
LoadArgs ==
    {[pattern |-> Some(Corner), position |-> Some(<<1, 0>>)],
     [pattern |-> None, position |-> Some(<<1, 0>>)],
     [pattern |-> Some(Corner), position |-> None]}
UpdateArgs ==
    {[generation |-> 0, cells |-> {}],
     [generation |-> 2, cells |-> {}],
     [generation |-> 1,
      cells |-> {[x |-> 1, y |-> 1, alive |-> TRUE, neighbors |-> 0],
                 [x |-> 0, y |-> 1, alive |-> FALSE, neighbors |-> 261],
                 [x |-> 2, y |-> 0, alive |-> TRUE, neighbors |-> 0]}]}

Free(t) == rq[t].pc = "idle"

\* The step returns no response.
Silent == reply' = None

Waiting(t, kind) == rq[t].pc = "lock_wait" /\ rq[t].kind = kind

\* A request reaches self.simulations.lock().await and the guard is taken:
\* the task is parked until the Mutex is free.  The rest of the request
\* has no effect before the handler runs, so it is drawn at that moment.
Park(t, kind, id) ==
    /\ Silent
    /\ rq' = [rq EXCEPT ![t] = [IdleRequest EXCEPT !.pc = "lock_wait",
                                   !.kind = kind, !.id = id]]
    /\ UNCHANGED <<simulations, uuid_count, lock_holder, st, delete_ok, evars>>

\* The handler returns its response; the task is free for the next request.
Respond(t, kind, id, resp) ==
    /\ rq' = [rq EXCEPT ![t] = IdleRequest]
    /\ reply' = Some([task |-> t, kind |-> kind, id |-> id, resp |-> resp])

\* The handler returns; the response is observed with the request it answers.
RespondTo(t, kind, id, req, resp) ==
    /\ rq' = [rq EXCEPT ![t] = IdleRequest]
    /\ reply' = Some([task |-> t, kind |-> kind, id |-> id, req |-> req,
                      resp |-> resp])

\* ---- create_simulation ----
InvalidDimensions_positive_only(width, height) == width <= 0 \/ height <= 0

\* The two checks of the request: not positive, larger than the maximum.
InvalidDimensions(width, height) ==
    \/ width <= 0 \/ height <= 0
    \/ width > MaxGridSize \/ height > MaxGridSize

CreateBody(t, req) ==
    /\ LET id == uuid_count + 1
       IN  IF InvalidDimensions(req.width, req.height)
           THEN /\ RespondTo(t, "create", 0, req, StatusErr("InvalidArgument"))
                /\ UNCHANGED <<simulations, uuid_count>>
           ELSE /\ uuid_count < MaxSims
                /\ simulations' = create_simulation(simulations, id, req.width,
                                                    req.height, req.initial_pattern)
                /\ uuid_count' = id
                /\ RespondTo(t, "create", id, req,
                             SimulationResponse(simulations'[id]))
    /\ UNCHANGED <<lock_holder, st, delete_ok, evars>>

CreateCall(t) ==
    /\ Free(t)
    /\ IF lock_available(t, 0) THEN \E req \in CreateArgs : CreateBody(t, req)
       ELSE Park(t, "create", 0)

CreateRun(t) ==
    /\ Waiting(t, "create")
    /\ lock_available(t, 0)
    /\ \E req \in CreateArgs : CreateBody(t, req)

\* ---- get_simulation ----
GetBody(t, id) ==
    /\ LET simulation == get_simulation(simulations, id)
       IN  IF simulation = None
           THEN Respond(t, "get", id, StatusErr("NotFound"))
           ELSE Respond(t, "get", id, SimulationResponse(simulations[simulation[1]]))
    /\ UNCHANGED <<simulations, uuid_count, lock_holder, st, delete_ok, evars>>

GetCall(t) ==
    /\ Free(t)
    /\ \E id \in SimIds :
         IF lock_available(t, id) THEN GetBody(t, id) ELSE Park(t, "get", id)

GetRun(t) ==
    Waiting(t, "get") /\ lock_available(t, rq[t].id) /\ GetBody(t, rq[t].id)

\* ---- delete_simulation ----
DeleteBody(t, id) ==
    /\ LET r == delete_simulation(simulations, id)
           success == r.removed
       IN  /\ simulations' = r.simulations
           /\ Respond(t, "delete", id, [status |-> "OK", success |-> success])
           /\ delete_ok' = IF success THEN delete_ok \cup {id} ELSE delete_ok
    /\ UNCHANGED <<uuid_count, lock_holder, st, evars>>

DeleteCall(t) ==
    /\ Free(t)
    /\ \E id \in SimIds :
         IF lock_available(t, id) THEN DeleteBody(t, id)
         ELSE Park(t, "delete", id)

DeleteRun(t) ==
    Waiting(t, "delete") /\ lock_available(t, rq[t].id) /\ DeleteBody(t, rq[t].id)

\* ---- step_simulation ----
\* lock, lookup, clamp of steps, initial_cells
StepBody(t, id, req) ==
    /\ LET simulation == get_simulation_mut(simulations, id)
       IN  IF simulation = None
           THEN /\ Respond(t, "step", id, StatusErr("NotFound"))
                /\ UNCHANGED lock_holder
           ELSE LET k == simulation[1]
                IN  /\ simulations[k].generation + ClampSteps(req.steps) <= MaxGen
                    /\ Silent
                    /\ lock_holder' = t
                    /\ rq' = [rq EXCEPT ![t] =
                                [pc |-> "step_gen", kind |-> "step", id |-> id,
                                 arg |-> req, sim |-> k,
                                 steps |-> ClampSteps(req.steps), i |-> 0,
                                 initial_cells |-> get_live_cell_count(simulations[k]),
                                 entry |-> Some(simulations[k])]]
    /\ UNCHANGED <<simulations, uuid_count, st, delete_ok, evars>>

StepCall(t) ==
    /\ Free(t)
    /\ \E id \in SimIds :
         IF lock_available(t, id) THEN \E req \in StepArgs : StepBody(t, id, req)
         ELSE Park(t, "step", id)

StepAcquire(t) ==
    /\ Waiting(t, "step")
    /\ lock_available(t, rq[t].id)
    /\ \E req \in StepArgs : StepBody(t, rq[t].id, req)

StepLoopContinues_inclusive(i, steps) == i <= steps

\* for _ in 0..steps: is there another iteration after i of them?
StepLoopContinues(i, steps) == i < steps

\* simulation.generation += 1
StepGeneration(t) ==
    /\ rq[t].pc = "step_gen"
    /\ StepLoopContinues(rq[t].i, rq[t].steps)
    /\ Silent
    /\ simulations' = [simulations EXCEPT ![rq[t].sim].generation = @ + 1]
    /\ rq' = [rq EXCEPT ![t].pc = "step_cells"]
    /\ UNCHANGED <<uuid_count, lock_holder, st, delete_ok, evars>>

\* simulation.cells = new_cells; back to the head of the loop
StepCells(t) ==
    /\ rq[t].pc = "step_cells"
    /\ Silent
    /\ simulations' = [simulations EXCEPT ![rq[t].sim].cells =
                          InlineNewCells(simulations[rq[t].sim])]
    /\ rq' = [rq EXCEPT ![t].pc = "step_gen", ![t].i = @ + 1]
    /\ UNCHANGED <<uuid_count, lock_holder, st, delete_ok, evars>>

ChangedCells_signed(initial_cells, final_cells) == initial_cells - final_cells

\* let changed_cells = (initial_cells as i64 - final_cells as i64).abs();
ChangedCells(initial_cells, final_cells) ==
    LET diff == initial_cells - final_cells
    IN  IF diff < 0 THEN 0 - diff ELSE diff

\* The loop is over: final_cells, changed_cells, the response; the guard drops.
StepReturn(t) ==
    /\ rq[t].pc = "step_gen"
    /\ ~StepLoopContinues(rq[t].i, rq[t].steps)
    /\ LET sim == simulations[rq[t].sim]
           final_cells == get_live_cell_count(sim)
       IN  Respond(t, "step", rq[t].id,
                   [status |-> "OK", generation |-> sim.generation,
                    live_cells |-> final_cells,
                    changed_cells |->
                        ChangedCells(rq[t].initial_cells, final_cells)])
    /\ lock_holder' = NoTask
    /\ UNCHANGED <<simulations, uuid_count, st, delete_ok, evars>>

\* ---- update_simulation ----
\* lock, lookup, if req.generation > 0 { simulation.generation = ... }
UpdateBody(t, id, req) ==
    /\ LET simulation == get_simulation_mut(simulations, id)
       IN  IF simulation = None
           THEN /\ Respond(t, "update", id, StatusErr("NotFound"))
                /\ UNCHANGED <<simulations, lock_holder>>
           ELSE LET k == simulation[1]
                IN  /\ simulations' =
                          IF req.generation > 0
                          THEN [simulations EXCEPT ![k].generation = req.generation]
                          ELSE simulations
                    /\ Silent
                    /\ lock_holder' = t
                    /\ rq' = [rq EXCEPT ![t] =
                                [IdleRequest EXCEPT !.pc = "update_cells",
                                   !.kind = "update", !.id = id, !.arg = req,
                                   !.sim = k]]
    /\ UNCHANGED <<uuid_count, st, delete_ok, evars>>

UpdateCall(t) ==
    /\ Free(t)
    /\ \E id \in SimIds :
         IF lock_available(t, id) THEN \E req \in UpdateArgs : UpdateBody(t, id, req)
         ELSE Park(t, "update", id)

UpdateAcquire(t) ==
    /\ Waiting(t, "update")
    /\ lock_available(t, rq[t].id)
    /\ \E req \in UpdateArgs : UpdateBody(t, rq[t].id, req)

UpdatedCells_merged(sim, cells) ==
    LET kept == {c \in cells : InBounds(c.x, c.y, sim.width, sim.height)}
        new == {<<c.x, c.y>> : c \in kept}
    IN  [p \in (DOMAIN sim.cells) \cup new |->
            IF p \in new
            THEN LET c == CHOOSE c \in kept : <<c.x, c.y>> = p
                 IN  [alive |-> c.alive, generation |-> sim.generation,
                      neighbor_count |-> c.neighbors % 256]
            ELSE sim.cells[p]]

UpdatedCells_clears(sim, cells) ==
    LET kept == {c \in cells : InBounds(c.x, c.y, sim.width, sim.height)}
    IN  [p \in {<<c.x, c.y>> : c \in kept} |->
           LET c == CHOOSE c \in kept : <<c.x, c.y>> = p
           IN  [alive |-> c.alive, generation |-> sim.generation,
                neighbor_count |-> c.neighbors % 256]]

\* The cell map an update request leaves: cleared and refilled with the
\* in-bounds cells of the request when the list is not empty.
UpdatedCells(sim, cells) ==
    IF cells = {} THEN sim.cells
    ELSE LET kept == {c \in cells : InBounds(c.x, c.y, sim.width, sim.height)}
         IN  [p \in {<<c.x, c.y>> : c \in kept} |->
                LET c == CHOOSE c \in kept : <<c.x, c.y>> = p
                IN  [alive |-> c.alive, generation |-> sim.generation,
                     neighbor_count |-> c.neighbors % 256]]

UpdateCellsRun(t) ==
    /\ rq[t].pc = "update_cells"
    /\ LET k == rq[t].sim
           sim == [simulations[k] EXCEPT
                     !.cells = UpdatedCells(simulations[k], rq[t].arg.cells)]
       IN  /\ simulations' = [simulations EXCEPT ![k] = sim]
           /\ Respond(t, "update", rq[t].id, SimulationResponse(sim))
    /\ lock_holder' = NoTask
    /\ UNCHANGED <<uuid_count, st, delete_ok, evars>>

\* ---- load_pattern ----
LoadBody(t, id, req) ==
    /\ LET simulation == get_simulation_mut(simulations, id)
       IN  IF simulation = None
           THEN RespondTo(t, "load", id, req, StatusErr("NotFound"))
                /\ UNCHANGED simulations
           ELSE IF req.pattern = None \/ req.position = None
           THEN RespondTo(t, "load", id, req, StatusErr("InvalidArgument"))
                /\ UNCHANGED simulations
           ELSE LET k == simulation[1]
                    r == add_pattern(simulations[k], req.pattern[1],
                                     req.position[1][1], req.position[1][2])
                IN  /\ simulations' = [simulations EXCEPT ![k] = r.sim]
                    /\ RespondTo(t, "load", id, req,
                                 [status |-> "OK", success |-> r.cells_added > 0,
                                  cells_added |-> r.cells_added])
    /\ UNCHANGED <<uuid_count, lock_holder, st, delete_ok, evars>>

LoadCall(t) ==
    /\ Free(t)
    /\ \E id \in SimIds :
         IF lock_available(t, id) THEN \E req \in LoadArgs : LoadBody(t, id, req)
         ELSE Park(t, "load", id)

LoadRun(t) ==
    /\ Waiting(t, "load")
    /\ lock_available(t, rq[t].id)
    /\ \E req \in LoadArgs : LoadBody(t, rq[t].id, req)

\* ---- stream_simulation ----
SimulationUpdate(sim) ==
    [ok |-> TRUE, generation |-> sim.generation,
     live_cells |-> get_live_cell_count(sim),
     changed_cells |-> CellList(sim),
     simulation_ended |-> get_live_cell_count(sim) = 0]

NotFoundItem == [ok |-> FALSE, code |-> "NotFound"]

StreamFrame == <<uuid_count, rq, delete_ok, evars>>

StreamResponse(s, id, resp) ==
    reply' = Some([task |-> s, kind |-> "stream", id |-> id, resp |-> resp])

\* The stream is over ("ended" after the break that follows an update with
\* no live cell, "failed" after the NotFound item, "cancelled" when dropped):
\* the subscriber sees the end and the slot is free for a new subscription.
Terminate(s, how) ==
    /\ st' = [st EXCEPT ![s] = IdleStream]
    /\ reply' = Some([task |-> s, kind |-> "stream_end", id |-> st[s].id,
                      resp |-> [status |-> how]])

StreamBreaks_never(count) == FALSE

\* if live_cells == 0 { break; }
StreamBreaks(count) == count = 0

\* "Verify simulation exists": the guard lives for the block only; the
\* handler returns NotFound or the stream.
VerifyBody(s, id, auto_step) ==
    /\ IF get_simulation(simulations, id) = None
       THEN /\ st' = [st EXCEPT ![s] = IdleStream]
            /\ StreamResponse(s, id, StatusErr("NotFound"))
       ELSE /\ st' = [st EXCEPT ![s] = [IdleStream EXCEPT !.pc = "tick_wait",
                                           !.id = id, !.auto_step = auto_step]]
            /\ StreamResponse(s, id, [status |-> "OK"])
    /\ UNCHANGED <<simulations, lock_holder, StreamFrame>>

StreamCall(s) ==
    /\ st[s].pc = "idle"
    /\ \E id \in SimIds, a \in BOOLEAN :
         IF lock_available(s, id) THEN VerifyBody(s, id, a)
         ELSE /\ st' = [st EXCEPT ![s].pc = "verify", ![s].id = id,
                                  ![s].auto_step = a]
              /\ Silent
              /\ UNCHANGED <<simulations, lock_holder, StreamFrame>>

StreamVerify(s) ==
    /\ st[s].pc = "verify"
    /\ lock_available(s, st[s].id)
    /\ VerifyBody(s, st[s].id, st[s].auto_step)

AutoSteps_always(auto_step) == TRUE

AutoSteps_never(auto_step) == FALSE

\* if req.auto_step { ... }: does the tick step the simulation?
AutoSteps(auto_step) == auto_step

\* simulations.lock().await completes; lookup; with auto_step the generation
\* is incremented, without it the update is yielded at once.
TickBody(s) ==
    /\ Silent
    /\ lock_holder' = s
    /\ LET simulation == get_simulation_mut(simulations, st[s].id)
       IN  IF simulation = None
           THEN /\ st' = [st EXCEPT ![s].pc = "yield_err",
                                    ![s].item = Some(NotFoundItem)]
                /\ UNCHANGED simulations
           ELSE LET k == simulation[1]
                IN  IF AutoSteps(st[s].auto_step)
                    THEN /\ simulations[k].generation < MaxGen
                         /\ simulations' =
                              [simulations EXCEPT ![k].generation = @ + 1]
                         /\ st' = [st EXCEPT ![s].pc = "stream_cells", ![s].sim = k]
                    ELSE /\ st' = [st EXCEPT ![s].pc = "yield_ok", ![s].sim = k,
                                      ![s].item = Some(SimulationUpdate(simulations[k]))]
                         /\ UNCHANGED simulations
    /\ UNCHANGED StreamFrame

\* interval.tick().await completes; the task goes on to the lock
StreamTick(s) ==
    /\ st[s].pc = "tick_wait"
    /\ IF lock_available(s, st[s].id) THEN TickBody(s)
       ELSE /\ st' = [st EXCEPT ![s].pc = "lock_wait"]
            /\ Silent
            /\ UNCHANGED <<simulations, lock_holder, StreamFrame>>

StreamAcquire(s) ==
    /\ st[s].pc = "lock_wait"
    /\ lock_available(s, st[s].id)
    /\ TickBody(s)

\* simulation.cells = new_cells, then the update is yielded (guard alive)
StreamCells(s) ==
    /\ st[s].pc = "stream_cells"
    /\ Silent
    /\ LET k == st[s].sim
           sim == [simulations[k] EXCEPT !.cells = InlineNewCells(simulations[k])]
       IN  /\ simulations' = [simulations EXCEPT ![k] = sim]
           /\ st' = [st EXCEPT ![s].pc = "yield_ok",
                               ![s].item = Some(SimulationUpdate(sim))]
    /\ UNCHANGED <<lock_holder, StreamFrame>>

\* The subscriber takes the next item: the generator resumes after the
\* yield, breaks or reaches the end of the loop body, and the guard drops.
\* A subscriber that stops reading never lets this step happen.
StreamResume(s) ==
    /\ st[s].pc \in {"yield_ok", "yield_err"}
    /\ IF st[s].pc = "yield_err" THEN Terminate(s, "failed")
       ELSE IF StreamBreaks(st[s].item[1].live_cells) THEN Terminate(s, "ended")
       ELSE /\ st' = [st EXCEPT ![s].pc = "tick_wait", ![s].sim = 0,
                                ![s].item = None]
            /\ Silent
    /\ lock_holder' = NoTask
    /\ UNCHANGED <<simulations, StreamFrame>>

GuardAfterDrop_kept(s) == lock_holder

\* Dropping the generator drops its locals, sim_guard among them.
GuardAfterDrop(s) == IF lock_holder = s THEN NoTask ELSE lock_holder

\* The subscriber disconnects: the stream is dropped at a suspension point,
\* and with it the guard when it is alive.
StreamDrop(s) ==
    /\ st[s].pc \in {"tick_wait", "lock_wait", "yield_ok", "yield_err"}
    /\ Terminate(s, "cancelled")
    /\ lock_holder' = GuardAfterDrop(s)
    /\ UNCHANGED <<simulations, StreamFrame>>

RequestStep(t) ==
    \/ CreateCall(t) \/ CreateRun(t)
    \/ GetCall(t) \/ GetRun(t)
    \/ DeleteCall(t) \/ DeleteRun(t)
    \/ StepCall(t) \/ StepAcquire(t) \/ StepGeneration(t) \/ StepCells(t)
    \/ StepReturn(t)
    \/ UpdateCall(t) \/ UpdateAcquire(t) \/ UpdateCellsRun(t)
    \/ LoadCall(t) \/ LoadRun(t)

StreamStep(s) ==
    \/ StreamCall(s) \/ StreamVerify(s) \/ StreamTick(s) \/ StreamAcquire(s)
    \/ StreamCells(s) \/ StreamResume(s) \/ StreamDrop(s)

Next == (\E t \in Requests : RequestStep(t)) \/ (\E s \in Streams : StreamStep(s))

\* The engine variables of a run of the service alone.
EngineOff ==
    /\ live_cells = {} /\ boundary = <<>> /\ next_generation = {} /\ epc = "off"
    /\ input_cells = {} /\ iterations = 0
    /\ coordinate = <<0, 0>> /\ wrapped = None

\* The ECS world of a run without it.
WorldOff ==
    /\ entities = <<>> /\ simulation_state = [generation |-> 0]
    /\ schedule = [pc |-> "off"]

\* The GridState of a run without it.
GridOff == grid_state = <<>> /\ grid_op = <<>>

Init == ServiceInit /\ EngineOff /\ WorldOff /\ GridOff

Spec == Init /\ [][Next]_vars


(***************************************************************************)
(* Engine specification: draw an input, apply the engine once.             *)
(***************************************************************************)

\* Unbounded inputs: live sets inside a MaxDim x MaxDim box that straddles
\* the origin, so negative coordinates take part.
UnboundedBox == (-1..(MaxDim - 2)) \X (-1..(MaxDim - 2))

\* The policies of the drawn inputs: the unbounded grid and every bounded
\* grid up to MaxDim x MaxDim, with and without wrap.
EngineBoundaries ==
    {[kind |-> "unbounded", width |-> 0, height |-> 0, wrap_edges |-> FALSE]}
    \cup {[kind |-> "bounded", width |-> w, height |-> h, wrap_edges |-> wr] :
            w \in 1..MaxDim, h \in 1..MaxDim, wr \in BOOLEAN}

\* The live sets drawn for a policy: every set of cells of the grid.
EngineLiveSets(b) ==
    IF b.kind = "unbounded" THEN SUBSET UnboundedBox
    ELSE SUBSET Rect(b.width, b.height)

EngineInit ==
    /\ boundary \in EngineBoundaries
    /\ live_cells \in EngineLiveSets(boundary)
    /\ input_cells = live_cells
    /\ next_generation = {}
    /\ epc = "input"
    /\ iterations = 0
    /\ coordinate = <<0, 0>> /\ wrapped = None
    /\ ServiceInit /\ WorldOff /\ GridOff

ApplyUnbounded ==
    /\ epc = "input"
    /\ boundary.kind = "unbounded"
    /\ next_generation' =
         apply_game_of_life_rules(live_cells, FALSE, None, None)
    /\ epc' = "unbounded"
    /\ iterations' = iterations + 1
    /\ UNCHANGED <<live_cells, boundary, input_cells, coordinate, wrapped, svars>>

ApplyBounded ==
    /\ epc = "input"
    /\ boundary.kind = "bounded"
    /\ next_generation' = apply_game_of_life_rules_bounded(live_cells, boundary)
    /\ epc' = "bounded"
    /\ iterations' = iterations + 1
    /\ UNCHANGED <<live_cells, boundary, input_cells, coordinate, wrapped, svars>>

\* The call of apply_game_of_life_system when config.grid.wrap_edges is set:
\* apply_game_of_life_rules(live, true, Some(width), Some(height)).
ApplyWrapping ==
    /\ epc = "input"
    /\ boundary.kind = "bounded"
    /\ boundary.wrap_edges
    /\ next_generation' =
         apply_game_of_life_rules(live_cells, TRUE, Some(boundary.width),
                                  Some(boundary.height))
    /\ epc' = "wrapping"
    /\ iterations' = iterations + 1
    /\ UNCHANGED <<live_cells, boundary, input_cells, coordinate, wrapped, svars>>

\* One iteration of the loop of step_simulation on a simulation whose live
\* cells are live_cells; the map holds either no other entry or a dead entry
\* (alive = false, as update_simulation stores them) at every other position:
\* generation += 1, then cells = new_cells.
ApplyInline ==
    /\ epc = "input"
    /\ boundary.kind = "inline"
    /\ \E dead \in {{}, Rect(boundary.width, boundary.height) \ live_cells} :
         LET base == set_cells([id |-> 1, generation |-> iterations,
                             width |-> boundary.width,
                             height |-> boundary.height, cells |-> EmptyMap,
                             is_running |-> FALSE], live_cells)
             sim == [base EXCEPT !.cells =
                       [p \in live_cells \cup dead |->
                          IF p \in dead
                          THEN [CellState_new EXCEPT !.alive = FALSE]
                          ELSE CellState_new]]
             stepped == [sim EXCEPT !.generation = @ + 1]
             after == [stepped EXCEPT !.cells = InlineNewCells(stepped)]
         IN  next_generation' = get_live_cells(after)
    /\ epc' = "inline"
    /\ iterations' = iterations + 1
    /\ UNCHANGED <<live_cells, boundary, input_cells, coordinate, wrapped, svars>>

EngineNext == ApplyUnbounded \/ ApplyBounded

EngineSpec == EngineInit /\ [][EngineNext]_vars

(***************************************************************************)
(* Entry-point specification: the wrapping call of                         *)
(* apply_game_of_life_rules, applied once to a drawn live set of a wrapped *)
(* grid.                                                                   *)
(***************************************************************************)

EntryInit ==
    /\ boundary \in {b \in EngineBoundaries : b.wrap_edges}
    /\ live_cells \in EngineLiveSets(boundary)
    /\ input_cells = live_cells
    /\ next_generation = {}
    /\ epc = "input"
    /\ iterations = 0
    /\ coordinate = <<0, 0>> /\ wrapped = None
    /\ ServiceInit /\ WorldOff /\ GridOff

EntryNext == ApplyWrapping

EntrySpec == EntryInit /\ [][EntryNext]_vars

(***************************************************************************)
(* Inline specification: the loop body of step_simulation, applied once to *)
(* a drawn live set of a simulation of the service.                        *)
(***************************************************************************)

\* The grids of a simulation up to MaxDim x MaxDim.
InlineBoundaries ==
    {[kind |-> "inline", width |-> w, height |-> h, wrap_edges |-> FALSE] :
        w \in 1..MaxDim, h \in 1..MaxDim}

InlineInit ==
    /\ boundary \in InlineBoundaries
    /\ live_cells \in EngineLiveSets(boundary)
    /\ input_cells = live_cells
    /\ next_generation = {}
    /\ epc = "input"
    /\ iterations = 0
    /\ coordinate = <<0, 0>> /\ wrapped = None
    /\ ServiceInit /\ WorldOff /\ GridOff

InlineNext == ApplyInline

InlineSpec == InlineInit /\ [][InlineNext]_vars

(***************************************************************************)
(* Wrap specification: draw a position and a grid, apply a wrap function.  *)
(***************************************************************************)

\* Coordinates two grids away from the origin on both sides, so that
\* negative multiples of every dimension are drawn.
WrapRange == (0 - 2 * MaxDim)..(2 * MaxDim)

WrapInit ==
    /\ coordinate \in WrapRange \X WrapRange
    /\ \E w \in 1..MaxDim, h \in 1..MaxDim, wr \in BOOLEAN :
          boundary = [kind |-> "bounded", width |-> w, height |-> h,
                      wrap_edges |-> wr]
    /\ wrapped = None
    /\ epc = "input"
    /\ live_cells = {} /\ input_cells = {} /\ next_generation = {}
    /\ iterations = 0
    /\ ServiceInit /\ WorldOff /\ GridOff

ApplyWrapCoordinate ==
    /\ epc = "input"
    /\ wrapped' = Some(wrap_coordinate(coordinate, boundary))
    /\ epc' = "wrap_coordinate"
    /\ UNCHANGED <<live_cells, boundary, next_generation, input_cells,
                   iterations, coordinate, svars>>

ApplyWrapPosition ==
    /\ epc = "input"
    /\ wrapped' = Some(wrap_position(boundary, coordinate))
    /\ epc' = "wrap_position"
    /\ UNCHANGED <<live_cells, boundary, next_generation, input_cells,
                   iterations, coordinate, svars>>

WrapNext == ApplyWrapCoordinate \/ ApplyWrapPosition

WrapSpec == WrapInit /\ [][WrapNext]_vars

(***************************************************************************)
(* Pattern specification: draw a classic pattern and a policy, apply the   *)
(* transition of the policy again and again, each generation fed back as   *)
(* the next live set.                                                      *)
(***************************************************************************)

MaxIter == 4     \* transitions applied to one pattern
MaxShift == 1    \* patterns are drawn translated by up to this far per axis

Block == {<<0, 0>>, <<0, 1>>, <<1, 0>>, <<1, 1>>}
VerticalBlinker(x, y) == {<<x, y - 1>>, <<x, y>>, <<x, y + 1>>}
HorizontalBlinker(x, y) == {<<x - 1, y>>, <<x, y>>, <<x + 1, y>>}
Glider == {<<1, 0>>, <<2, 1>>, <<0, 2>>, <<1, 2>>, <<2, 2>>}

Shifted(cells, t) == {<<c[1] + t[1], c[2] + t[2]>> : c \in cells}

PatternShifts == ((0 - MaxShift)..MaxShift) \X ((0 - MaxShift)..MaxShift)

PatternCells ==
    {Shifted(P, t) : P \in {Block, VerticalBlinker(1, 1), Glider, {}},
                     t \in PatternShifts}

\* The policies: the unbounded grid, the bounded grids of the engine with and
\* without wrap, and the grid of a simulation of the service ("inline": the
\* transition coded in step_simulation). A bounded grid is drawn only with
\* patterns it contains.
PatternInputs ==
    {[live |-> l, b |-> [kind |-> "unbounded", width |-> 0, height |-> 0,
                         wrap_edges |-> FALSE]] : l \in PatternCells}
    \cup UNION {UNION {
           {[live |-> l, b |-> [kind |-> k[1], width |-> w, height |-> h,
                                wrap_edges |-> k[2]]] :
              l \in {c \in PatternCells : c \subseteq Rect(w, h)},
              k \in {<<"bounded", FALSE>>, <<"bounded", TRUE>>,
                     <<"inline", FALSE>>}}
           : w \in 1..(MaxDim + 1)} : h \in 1..(MaxDim + 1)}

PatternInit ==
    /\ \E i \in PatternInputs :
          live_cells = i.live /\ input_cells = i.live /\ boundary = i.b
    /\ next_generation = {}
    /\ epc = "input"
    /\ iterations = 0
    /\ coordinate = <<0, 0>> /\ wrapped = None
    /\ ServiceInit /\ WorldOff /\ GridOff

Applied == {"unbounded", "bounded", "inline"}

\* The caller hands the generation it got back as the next live set.
Feed ==
    /\ epc \in Applied
    /\ iterations < MaxIter
    /\ live_cells' = next_generation
    /\ epc' = "input"
    /\ UNCHANGED <<boundary, next_generation, input_cells, iterations,
                   coordinate, wrapped, svars>>

PatternNext == ApplyUnbounded \/ ApplyBounded \/ ApplyInline \/ Feed

PatternSpec == PatternInit /\ [][PatternNext]_vars

(***************************************************************************)
(* gol-bevy systems/: the chain (neighbor_counting_system,                 *)
(* cell_lifecycle_system, cleanup_system) of the Update schedule.  The     *)
(* commands a system queues are applied to the World before the next       *)
(* system of the chain runs, and after the last one.                       *)
(***************************************************************************)
\* Number of app.update() calls of a run.
MaxUpdates == 2

Position_neighbors_with_self(p) == {<<p[1] + d[1], p[2] + d[2]>> : d \in BlockOffsets}

\* Position::neighbors: the eight positions around p.
Position_neighbors(p) == {<<p[1] + d[1], p[2] + d[2]>> : d \in NeighborOffsets}

\* The components spawn_pattern gives an entity: CellState::new().
LiveEntity(p) ==
    [position |-> p, alive |-> TRUE, generation |-> 0, neighbor_count |-> 0]

\* The ghost neighbor_counting_system spawns at a potential birth position.
GhostEntity(p, neighbor_count) ==
    [position |-> p, alive |-> FALSE, generation |-> 0,
     neighbor_count |-> neighbor_count]

\* potential_cells: one increment (u8) per (entity, neighbour) pair.
potential_cells(ents) ==
    LET pairs == UNION {{<<e, n>> : n \in Position_neighbors(ents[e].position)} :
                           e \in DOMAIN ents}
    IN  [k \in {pr[2] : pr \in pairs} |->
            Cardinality({pr \in pairs : pr[2] = k}) % 256]

\* spawn of one entity with the components bundle[p] for every position p
\* of the domain of bundle: the new entities take the smallest unused
\* identifiers, in the order of the positions (an Entity is an opaque
\* handle; no system reads its value).
Spawned(ents, bundle) ==
    LET positions == DOMAIN bundle
        free == (1..(Cardinality(DOMAIN ents) + Cardinality(positions)))
                    \ DOMAIN ents
        before(g, h) == g[1] < h[1] \/ (g[1] = h[1] /\ g[2] < h[2])
        rank(g) == Cardinality({h \in positions : before(h, g)}) + 1
        entity_of(g) == CHOOSE i \in free :
                           Cardinality({j \in free : j <= i}) = rank(g)
    IN  [e \in DOMAIN ents \cup {entity_of(g) : g \in positions} |->
            IF e \in DOMAIN ents THEN ents[e]
            ELSE bundle[CHOOSE h \in positions : entity_of(h) = e]]

\* neighbor_counting_system with its commands applied: every entity gets the
\* count of its position, a ghost is spawned at every position that is
\* counted exactly 3 times and holds no entity.
neighbor_counting_system(ents) ==
    LET live_positions == {ents[e].position : e \in DOMAIN ents}
        counts == potential_cells(ents)
        counted == [e \in DOMAIN ents |->
                      [ents[e] EXCEPT !.neighbor_count =
                          IF ents[e].position \in DOMAIN counts
                          THEN counts[ents[e].position] ELSE 0]]
        ghosts == {k \in DOMAIN counts : counts[k] = 3 /\ k \notin live_positions}
    IN  Spawned(counted, [g \in ghosts |-> GhostEntity(g, counts[g])])

\* The entities cell_lifecycle_system does not despawn.
LifecycleKeeps(cell_state) ==
    IF cell_state.alive THEN cell_state.neighbor_count \in {2, 3}
    ELSE cell_state.neighbor_count = 3

\* cell_lifecycle_system with its commands applied: a survivor and a born
\* cell get a fresh CellState (alive, neighbor_count 0), the rest is
\* despawned.
cell_lifecycle_system(ents, generation) ==
    [e \in {k \in DOMAIN ents : LifecycleKeeps(ents[k])} |->
        [position |-> ents[e].position, alive |-> TRUE,
         generation |-> IF ents[e].alive THEN ents[e].generation + 1
                        ELSE generation + 1,
         neighbor_count |-> 0]]

\* cleanup_system with its commands applied.
cleanup_system(ents) ==
    [e \in {k \in DOMAIN ents :
               ~(~ents[k].alive /\ ents[k].neighbor_count # 3)} |-> ents[e]]

\* The positions of the Position components in the World (get_live_positions
\* of the tests).
EntityPositions == {entities[e].position : e \in DOMAIN entities}

\* spawn_pattern with any pattern of distinct positions around the origin.
EcsBox == (-1..1) \X (-1..(MaxDim - 2))

EcsInit ==
    /\ \E pattern \in SUBSET EcsBox :
          entities = Spawned(<<>>, [p \in pattern |-> LiveEntity(p)])
    /\ simulation_state = [generation |-> 0]
    /\ schedule = [pc |-> "neighbor_counting", updates |-> 0,
                   positions |-> {}, generation |-> 0]
    /\ ServiceInit /\ EngineOff /\ GridOff

EcsFrame == <<live_cells, boundary, next_generation, epc, input_cells,
              iterations, coordinate, wrapped, simulations, uuid_count,
              lock_holder, rq, st, delete_ok, reply, gvars>>

\* app.update() starts: the first system of the chain runs.
RunNeighborCounting ==
    /\ schedule.pc = "neighbor_counting"
    /\ schedule.updates < MaxUpdates
    /\ entities' = neighbor_counting_system(entities)
    /\ schedule' = [pc |-> "cell_lifecycle", updates |-> schedule.updates,
                    positions |-> EntityPositions,
                    generation |-> simulation_state.generation]
    /\ UNCHANGED <<simulation_state, EcsFrame>>

RunCellLifecycle ==
    /\ schedule.pc = "cell_lifecycle"
    /\ entities' = cell_lifecycle_system(entities, simulation_state.generation)
    /\ simulation_state' =
          [simulation_state EXCEPT !.generation = @ + 1]
    /\ schedule' = [schedule EXCEPT !.pc = "cleanup"]
    /\ UNCHANGED EcsFrame

\* The last system of the chain: app.update() returns.
RunCleanup ==
    /\ schedule.pc = "cleanup"
    /\ entities' = cleanup_system(entities)
    /\ schedule' = [schedule EXCEPT !.pc = "neighbor_counting",
                                    !.updates = @ + 1]
    /\ UNCHANGED <<simulation_state, EcsFrame>>

EcsNext == RunNeighborCounting \/ RunCellLifecycle \/ RunCleanup

EcsSpec == EcsInit /\ [][EcsNext]_vars

(***************************************************************************)
(* bevy-game-of-life resources/grid_state.rs: GridState                    *)
(***************************************************************************)
\* The cells the calls are drawn from.
GridCells == Rect(MaxDim, 1)

\* GridState::new
GridState_new ==
    [live_cells |-> {}, pending_births |-> {}, pending_deaths |-> {},
     dirty |-> FALSE]

\* GridState::add_cell
add_cell(gs, pos) ==
    IF pos \in gs.live_cells THEN gs
    ELSE [gs EXCEPT !.live_cells = @ \cup {pos}, !.dirty = TRUE]

\* GridState::remove_cell
remove_cell(gs, pos) ==
    IF pos \in gs.live_cells
    THEN [gs EXCEPT !.live_cells = @ \ {pos}, !.dirty = TRUE]
    ELSE gs

prepare_transition_no_clear(gs, new_live_cells) ==
    [gs EXCEPT
        !.pending_births =
            @ \cup {pos \in new_live_cells : pos \notin gs.live_cells},
        !.pending_deaths =
            @ \cup {pos \in gs.live_cells : pos \notin new_live_cells}]

\* GridState::prepare_transition: both pending sets are cleared, then filled.
prepare_transition(gs, new_live_cells) ==
    [gs EXCEPT
        !.pending_births =
            {pos \in new_live_cells : pos \notin gs.live_cells},
        !.pending_deaths =
            {pos \in gs.live_cells : pos \notin new_live_cells}]

\* GridState::apply_transition: deaths removed, then births inserted.
apply_transition(gs) ==
    [live_cells |-> (gs.live_cells \ gs.pending_deaths) \cup gs.pending_births,
     pending_births |-> {}, pending_deaths |-> {}, dirty |-> TRUE]

GridInit ==
    /\ grid_state = GridState_new
    /\ grid_op = [op |-> "new", arg |-> {}, after |-> "", after_arg |-> {}]
    /\ ServiceInit /\ EngineOff /\ WorldOff

GridFrame == <<live_cells, boundary, next_generation, epc, input_cells,
               iterations, coordinate, wrapped, simulations, uuid_count,
               lock_holder, rq, st, delete_ok, reply, wvars>>

\* The call op(arg) is recorded with the call it follows.
Called(op, arg) ==
    [op |-> op, arg |-> arg, after |-> grid_op.op, after_arg |-> grid_op.arg]

AddCell ==
    \E pos \in GridCells :
        /\ grid_state' = add_cell(grid_state, pos)
        /\ grid_op' = Called("add_cell", {pos})
        /\ UNCHANGED GridFrame

RemoveCell ==
    \E pos \in GridCells :
        /\ grid_state' = remove_cell(grid_state, pos)
        /\ grid_op' = Called("remove_cell", {pos})
        /\ UNCHANGED GridFrame

PrepareTransition ==
    \E new_live_cells \in SUBSET GridCells :
        /\ grid_state' = prepare_transition(grid_state, new_live_cells)
        /\ grid_op' = Called("prepare_transition", new_live_cells)
        /\ UNCHANGED GridFrame

ApplyTransition ==
    /\ grid_state' = apply_transition(grid_state)
    /\ grid_op' = Called("apply_transition", {})
    /\ UNCHANGED GridFrame

GridNext == AddCell \/ RemoveCell \/ PrepareTransition \/ ApplyTransition

GridSpec == GridInit /\ [][GridNext]_vars

(***************************************************************************)
(* The rule of the specification: a cell is in the next generation exactly *)
(* when it is alive with 2 or 3 live neighbours or dead with exactly 3,    *)
(* neighbours being the eight Moore positions, wrapped with                *)
(* ((c % d) + d) % d or clipped to the rectangle.                          *)
(***************************************************************************)
TorusAxis(c, dim) == ((c % dim) + dim) % dim

RuleNeighbors(p, live, b) ==
    Cardinality({d \in NeighborOffsets :
        LET nx == p[1] + d[1]
            ny == p[2] + d[2]
        IN  IF b.kind = "unbounded" THEN <<nx, ny>> \in live
            ELSE IF b.wrap_edges
                 THEN <<TorusAxis(nx, b.width), TorusAxis(ny, b.height)>> \in live
                 ELSE InBounds(nx, ny, b.width, b.height) /\ <<nx, ny>> \in live})

RuleUniverse(live, b) ==
    IF b.kind = "unbounded"
    THEN UNION {{<<c[1] + d[1], c[2] + d[2]>> : d \in BlockOffsets} : c \in live}
    ELSE Rect(b.width, b.height)

RuleNext(live, b) ==
    {p \in RuleUniverse(live, b) :
        \/ p \in live /\ RuleNeighbors(p, live, b) \in {2, 3}
        \/ p \notin live /\ RuleNeighbors(p, live, b) = 3}

\* C1: whatever the live set and the boundary policy, the engine's next
\* generation is exactly the set the rule describes (survival with 2 or 3
\* live neighbours, birth with exactly 3, neighbours wrapped or clipped).
C1_NextGenerationIsRule ==
    epc \in {"unbounded", "bounded"} =>
        next_generation = RuleNext(live_cells, boundary)

(***************************************************************************)
(* Properties of the service                                               *)
(***************************************************************************)
Tasks == Requests \cup Streams

\* Task u is between the first and the last write of an operation on the
\* simulation stored under id: the generation is written and the cells are
\* not yet, or only some of the steps of a StepSimulation are applied.
MidOperation(u, id) ==
    IF u \in Requests
    THEN rq[u].pc \in {"step_gen", "step_cells", "update_cells"} /\ rq[u].sim = id
    ELSE st[u].pc = "stream_cells" /\ st[u].sim = id

\* Task u owns what lock() returned: it is inside a handler's critical
\* section, or it is a stream between lock() and the end of the loop body.
InOperation(u) ==
    IF u \in Requests
    THEN rq[u].pc \in {"step_gen", "step_cells", "update_cells"}
    ELSE st[u].pc \in {"stream_cells", "yield_ok", "yield_err"}

\* The simulation id of the request task u works on.
TargetOf(u) == IF u \in Requests THEN rq[u].id ELSE st[u].id

\* C2: a snapshot returned by GetSimulation or emitted by a stream is taken
\* while no other task is in the middle of an operation on that simulation,
\* and it is the generation and the cells the registry holds at that moment.
C2_SnapshotsAreWhole ==
    /\ (reply # None /\ reply[1].kind = "get" /\ reply[1].resp.status = "OK") =>
          /\ \A u \in Tasks \ {reply[1].task} : ~MidOperation(u, reply[1].id)
          /\ reply[1].resp = SimulationResponse(simulations[reply[1].id])
    /\ \A s \in Streams : st[s].pc = "yield_ok" =>
          /\ \A u \in Tasks \ {s} : ~MidOperation(u, st[s].id)
          /\ st[s].item = Some(SimulationUpdate(simulations[st[s].id]))

\* A GetSimulation is parked behind a stream that has incremented the
\* generation of the same simulation and not yet replaced its cells.
C2_Witness ==
    \E t \in Requests, s \in Streams :
        /\ Waiting(t, "get")
        /\ st[s].pc = "stream_cells"
        /\ rq[t].id = st[s].id
        /\ get_live_cell_count(simulations[st[s].id]) > 0

\* C3: once DeleteSimulation answered success for an id, the id is absent
\* from the registry, GetSimulation, UpdateSimulation, StepSimulation,
\* LoadPattern and StreamSimulation on it answer NotFound, and no
\* CreateSimulation hands the id out again.
C3_DeletedIsNotFound ==
    /\ delete_ok \cap DOMAIN simulations = {}
    /\ reply # None =>
          /\ (reply[1].kind \in {"get", "update", "step", "load", "stream"}
                /\ reply[1].id \in delete_ok) => reply[1].resp.status = "NotFound"
          /\ (reply[1].kind = "create" /\ reply[1].resp.status = "OK")
                => reply[1].id \notin delete_ok

\* A StepSimulation on a deleted id has just answered NotFound.
C3_Witness ==
    /\ reply # None
    /\ reply[1].kind = "step"
    /\ reply[1].id \in delete_ok
    /\ reply[1].resp.status = "NotFound"

\* C4: a stream whose simulation was deleted emits no update any more: it
\* is never in the auto-step nor at the yield of an update, the only item it
\* still yields is NotFound, and after that item it only ends.
C4_DeletedStreamFails ==
    [][\A s \in Streams :
         /\ st'[s].pc \in {"stream_cells", "yield_ok"} => st'[s].id \notin delete_ok'
         /\ (st[s].pc \in {"tick_wait", "lock_wait"} /\ st[s].id \in delete_ok
               /\ st'[s] # st[s]) =>
              \/ st'[s] = [st[s] EXCEPT !.pc = "lock_wait"]
              \/ st'[s] = [st[s] EXCEPT !.pc = "yield_err",
                                        !.item = Some(NotFoundItem)]
              \/ /\ st'[s] = IdleStream
                 /\ reply' = Some([task |-> s, kind |-> "stream_end",
                                   id |-> st[s].id,
                                   resp |-> [status |-> "cancelled"]])
         /\ (st[s].pc = "yield_err" /\ st'[s] # st[s]) =>
              /\ st'[s] = IdleStream
              /\ reply' # None
              /\ reply'[1].kind = "stream_end"
              /\ reply'[1].resp.status \in {"failed", "cancelled"}]_vars

\* A stream of a deleted simulation is suspended at the yield of NotFound
\* while another simulation is still registered.
C4_Witness ==
    \E s \in Streams :
        /\ st[s].pc = "yield_err"
        /\ st[s].id \in delete_ok
        /\ st[s].item = Some(NotFoundItem)
        /\ DOMAIN simulations # {}

\* The rule applied n times to the live set of a bounded grid without wrap.
RECURSIVE RuleIterate(_, _, _)
RuleIterate(live, b, n) ==
    IF n = 0 THEN live ELSE RuleIterate(RuleNext(live, b), b, n - 1)

\* C6: a StepSimulation that answers OK has advanced the generation by
\* max(1, steps), steps <= 0 counting as 1, and leaves the live set the rule
\* yields when applied that many times to the live set found at entry.
C6_StepAdvances ==
    [][\A t \in Requests :
         (rq[t].pc = "step_gen" /\ rq'[t].pc = "idle") =>
            LET e == rq[t].entry[1]
                n == IF rq[t].arg.steps <= 0 THEN 1 ELSE rq[t].arg.steps
                after == simulations'[rq[t].id]
                grid == [kind |-> "bounded", width |-> e.width,
                         height |-> e.height, wrap_edges |-> FALSE]
            IN  /\ after.generation = e.generation + n
                /\ get_live_cells(after) = RuleIterate(get_live_cells(e), grid, n)
                /\ reply'[1].resp.status = "OK"
                /\ reply'[1].resp.generation = after.generation
                /\ reply'[1].resp.live_cells = Cardinality(get_live_cells(after))]_vars

\* A StepSimulation with steps = 2 has applied both steps to three live
\* cells, which are four now, and is about to answer.
C6_Witness ==
    \E t \in Requests :
        /\ rq[t].pc = "step_gen"
        /\ rq[t].arg.steps = 2
        /\ rq[t].i = 2
        /\ get_live_cell_count(rq[t].entry[1]) = 3
        /\ get_live_cell_count(simulations[rq[t].id]) = 4

\* The step is taken by a task whose request names simulation b.
Addressed(b) ==
    \/ reply' # None /\ reply'[1].id = b
    \/ \E t \in Requests : rq'[t] # rq[t] /\ (rq[t].id = b \/ rq'[t].id = b)
    \/ \E s \in Streams : st'[s] # st[s] /\ (st[s].id = b \/ st'[s].id = b)

\* C7: a step changes or removes a simulation only when it is taken for a
\* request that names this simulation, and a response or a stream update
\* carries the data of the simulation its request names.
C7_Isolation ==
    [][/\ \A b \in DOMAIN simulations :
            (b \notin DOMAIN simulations' \/ simulations'[b] # simulations[b])
               => Addressed(b)
       /\ (reply' # None /\ reply'[1].kind \in {"create", "get", "update"}
             /\ reply'[1].resp.status = "OK")
            => reply'[1].resp = SimulationResponse(simulations'[reply'[1].id])
       /\ (reply' # None /\ reply'[1].kind = "step" /\ reply'[1].resp.status = "OK")
            => /\ reply'[1].resp.generation = simulations'[reply'[1].id].generation
               /\ reply'[1].resp.live_cells =
                     get_live_cell_count(simulations'[reply'[1].id])
       /\ \A s \in Streams :
            (st'[s].pc = "yield_ok" /\ st[s].pc # "yield_ok")
               => st'[s].item = Some(SimulationUpdate(simulations'[st'[s].id]))]_vars

\* Two simulations are registered, one was stepped to generation 2 and has
\* just answered, the other still has generation 0 and its loaded cells.
C7_Witness ==
    /\ reply # None
    /\ reply[1].kind = "step"
    /\ reply[1].resp.status = "OK"
    /\ reply[1].resp.generation = 2
    /\ \E b \in DOMAIN simulations :
          /\ b # reply[1].id
          /\ simulations[b].generation = 0
          /\ get_live_cell_count(simulations[b]) = 3

\* C8: a stream owns no guard while it is suspended, be it in the interval
\* wait or at a yield, waiting for its subscriber to take the item.
C8_NoGuardWhileSuspended ==
    \A s \in Streams :
        st[s].pc \in {"tick_wait", "yield_ok", "yield_err"} => lock_holder # s

\* The generation of the simulation a parked StepSimulation names can still
\* advance within the explored range.
StepHasRoom(t) ==
    rq[t].id \in DOMAIN simulations => simulations[rq[t].id].generation < MaxGen

\* C9 as stated: while a task holds the access for simulation B, a
\* StepSimulation waiting for a different simulation A can acquire its
\* access.
C9_StepNeverBlocked ==
    \A t \in Requests : \A u \in Tasks \ {t} :
        (Waiting(t, "step") /\ InOperation(u) /\ TargetOf(u) # rq[t].id
           /\ StepHasRoom(t))
        => ENABLED StepAcquire(t)

\* C9 amended: one guard serves every simulation.  While a task is inside
\* an operation, whatever its simulation, no other task is inside one and
\* a waiting StepSimulation cannot acquire its access.
C9_OneGuardForAll ==
    \A t \in Requests : \A u \in Tasks \ {t} :
        InOperation(u) =>
            /\ ~InOperation(t)
            /\ Waiting(t, "step") => ~ENABLED StepAcquire(t)

\* A StepSimulation for a registered simulation waits while a stream holds
\* the guard for another simulation.
C9_Witness ==
    \E t \in Requests, u \in Streams :
        /\ Waiting(t, "step")
        /\ rq[t].id \in DOMAIN simulations
        /\ StepHasRoom(t)
        /\ InOperation(u)
        /\ TargetOf(u) \in DOMAIN simulations
        /\ TargetOf(u) # rq[t].id

\* C10: after the yield of an update with simulation_ended = true the
\* stream only ends, without a further tick, lock or step; and a stream
\* ends regularly only after such an update.
C10_EndedIsLast ==
    [][\A s \in Streams :
         /\ (st[s].pc = "yield_ok" /\ st[s].item[1].simulation_ended
               /\ st'[s] # st[s]) =>
              /\ st'[s] = IdleStream
              /\ simulations' = simulations
              /\ reply' # None
              /\ reply'[1].kind = "stream_end"
              /\ reply'[1].resp.status \in {"ended", "cancelled"}
         /\ (reply' # None /\ reply'[1].task = s /\ reply'[1].kind = "stream_end"
               /\ reply'[1].resp.status = "ended") =>
              /\ st[s].pc = "yield_ok"
              /\ st[s].item[1].simulation_ended]_vars

\* A stream has just ended after an update with no live cell.
C10_Witness ==
    /\ reply # None
    /\ reply[1].kind = "stream_end"
    /\ reply[1].resp.status = "ended"

\* The policy of the service grids: bounded, no wrap.
ServiceGrid(sim) ==
    [kind |-> "bounded", width |-> sim.width, height |-> sim.height,
     wrap_edges |-> FALSE]

\* C11: a tick of a stream with auto_step adds exactly one to the generation
\* of its simulation, applies the rule once to its live set while no other
\* task touches it, and then yields one update whose generation and
\* live_cells are those of the simulation after the step, with
\* simulation_ended true exactly when no cell is alive.
C11_TickStepsOnce ==
    [][\A s \in Streams :
         /\ (st[s].pc \in {"tick_wait", "lock_wait"} /\ st[s].auto_step
               /\ st'[s].pc \notin {"tick_wait", "lock_wait", "idle", "yield_err"}) =>
              /\ st'[s].pc = "stream_cells"
              /\ simulations'[st[s].id] =
                   [simulations[st[s].id] EXCEPT !.generation = @ + 1]
         /\ st[s].pc = "stream_cells" =>
              LET before == simulations[st[s].id]
                  after == simulations'[st[s].id]
                  count == Cardinality(get_live_cells(after))
              IN  IF st'[s] = st[s] THEN after = before
                  ELSE /\ st'[s].pc = "yield_ok"
                       /\ after.generation = before.generation
                       /\ get_live_cells(after) =
                            RuleNext(get_live_cells(before), ServiceGrid(before))
                       /\ st'[s].item[1].ok
                       /\ st'[s].item[1].generation = after.generation
                       /\ st'[s].item[1].live_cells = count
                       /\ st'[s].item[1].simulation_ended = (count = 0)]_vars

\* A stream with auto_step is at the yield of an update of four live cells:
\* the three loaded cells and the one born in the step of the tick.
C11_Witness ==
    \E s \in Streams :
        /\ st[s].pc = "yield_ok"
        /\ st[s].auto_step
        /\ st[s].item[1].generation >= 1
        /\ st[s].item[1].live_cells = 4

\* C12: when a stream is dropped it is not between two writes of a step, the
\* registry is left as it is, the guard is free if the stream owned it and
\* stays with its owner otherwise; afterwards the task does nothing until a
\* new StreamSimulation call, and it never owns the guard while it is gone.
C12_DropReleases ==
    [][\A s \in Streams :
         /\ (reply' # None /\ reply'[1].task = s /\ reply'[1].kind = "stream_end"
               /\ reply'[1].resp.status = "cancelled") =>
              /\ st[s].pc \in {"tick_wait", "lock_wait", "yield_ok", "yield_err"}
              /\ ~MidOperation(s, st[s].id)
              /\ st'[s] = IdleStream
              /\ simulations' = simulations
              /\ lock_holder' = (IF lock_holder = s THEN NoTask ELSE lock_holder)
         /\ (st[s].pc = "idle" /\ st'[s] # st[s]) =>
              /\ simulations' = simulations
              /\ lock_holder' = lock_holder
              /\ \/ st'[s].pc = "verify" /\ reply' = None
                 \/ reply' # None /\ reply'[1].task = s /\ reply'[1].kind = "stream"
         /\ st'[s].pc = "idle" => lock_holder' # s]_vars

\* A stream was just dropped, the guard is free, and its simulation is
\* registered with the generation and the cells of its last step.
C12_Witness ==
    /\ reply # None
    /\ reply[1].kind = "stream_end"
    /\ reply[1].resp.status = "cancelled"
    /\ lock_holder = NoTask
    /\ reply[1].id \in DOMAIN simulations
    /\ simulations[reply[1].id].generation >= 1
    /\ get_live_cell_count(simulations[reply[1].id]) = 4

\* C13: no step makes the generation of a registered simulation smaller,
\* and a created simulation has generation 0.
C13_GenerationNeverDecreases ==
    [][/\ \A k \in DOMAIN simulations \cap DOMAIN simulations' :
            simulations'[k].generation >= simulations[k].generation
       /\ \A k \in DOMAIN simulations' \ DOMAIN simulations :
            simulations'[k].generation = 0]_vars

\* The coordinate lists handed to set_cells.
SetCellsInputs == SUBSET {<<0, 0>>, <<1, 1>>, <<-1, 0>>, <<2, 1>>, <<0, 2>>}

\* C14: every key of the cell map of every registered simulation has
\* 0 <= x < width and 0 <= y < height, and so has every key set_cells
\* would leave in it.
C14_CellsInsideGrid ==
    \A k \in DOMAIN simulations :
        LET sim == simulations[k]
            inside(p) == /\ 0 <= p[1] /\ p[1] < sim.width
                         /\ 0 <= p[2] /\ p[2] < sim.height
        IN  /\ \A p \in DOMAIN sim.cells : inside(p)
            /\ \A cs \in SetCellsInputs :
                 \A p \in DOMAIN set_cells(sim, cs).cells : inside(p)

\* An UpdateSimulation that named a cell outside the grid has answered: of
\* the two alive cells of the request one is kept.
C14_Witness ==
    /\ reply # None
    /\ reply[1].kind = "update"
    /\ reply[1].resp.status = "OK"
    /\ reply[1].resp.live_cells = 1
    /\ \E p \in DOMAIN simulations[reply[1].id].cells :
          ~simulations[reply[1].id].cells[p].alive

\* The cells of a LoadPattern request, translated by its position.
Translated(req) ==
    {<<c[1] + req.position[1][1], c[2] + req.position[1][2]>> : c \in req.pattern[1]}

\* C15: a LoadPattern that answers OK makes alive exactly the translated
\* pattern cells that are inside the grid and were not alive, leaves the
\* other cells as they were, and returns the number of cells it made alive,
\* by which the live-cell count grows.
C15_LoadMakesAlive ==
    [][(reply' # None /\ reply'[1].kind = "load" /\ reply'[1].resp.status = "OK") =>
         LET before == simulations[reply'[1].id]
             after == simulations'[reply'[1].id]
             inside == {p \in Translated(reply'[1].req) :
                          /\ 0 <= p[1] /\ p[1] < before.width
                          /\ 0 <= p[2] /\ p[2] < before.height}
             made == {p \in inside : p \notin get_live_cells(before)}
         IN  /\ get_live_cells(after) = get_live_cells(before) \cup made
             /\ reply'[1].resp.cells_added = Cardinality(made)
             /\ Cardinality(get_live_cells(after)) =
                  Cardinality(get_live_cells(before)) + reply'[1].resp.cells_added]_vars

\* A LoadPattern that repeats the request just answered, on the same
\* simulation, and does not answer cells_added = 0 or changes the registry.
SecondLoadDiffers ==
    \E t \in Requests :
        /\ LoadCall(t) \/ LoadRun(t)
        /\ reply' # None
        /\ reply'[1].kind = "load"
        /\ reply'[1].id = reply[1].id
        /\ reply'[1].req = reply[1].req
        /\ ~(/\ reply'[1].resp.status = "OK"
             /\ reply'[1].resp.cells_added = 0
             /\ ~reply'[1].resp.success
             /\ simulations' = simulations)

\* C16: right after a LoadPattern answered OK, no LoadPattern of the same
\* pattern and position on the same simulation can answer anything but
\* cells_added = 0, nor change the cells or the generation.
C16_SecondLoadAddsNothing ==
    (reply # None /\ reply[1].kind = "load" /\ reply[1].resp.status = "OK")
        => ~ENABLED SecondLoadDiffers

\* A LoadPattern has answered cells_added = 0 on a simulation of generation
\* 0, whose three live cells can only come from an earlier LoadPattern.
C16_Witness ==
    /\ reply # None
    /\ reply[1].kind = "load"
    /\ reply[1].resp.status = "OK"
    /\ reply[1].resp.cells_added = 0
    /\ simulations[reply[1].id].generation = 0
    /\ get_live_cell_count(simulations[reply[1].id]) = 3

\* C17: UpdateSimulation sets the generation to the supplied one when it is
\* > 0 and keeps it otherwise; with cells supplied the cell map becomes the
\* supplied cells that are inside the grid and nothing else; no other task
\* touches the simulation in between, and the response is the snapshot of
\* the state the update leaves.
C17_UpdateReplaces ==
    [][\A t \in Requests :
         /\ (rq[t].pc # "update_cells" /\ rq'[t].pc = "update_cells") =>
              simulations'[rq'[t].id] =
                 [simulations[rq'[t].id] EXCEPT !.generation =
                    IF rq'[t].arg.generation > 0 THEN rq'[t].arg.generation ELSE @]
         /\ (rq[t].pc = "update_cells" /\ rq'[t] = rq[t]) =>
              simulations'[rq[t].id] = simulations[rq[t].id]
         /\ (rq[t].pc = "update_cells" /\ rq'[t] # rq[t]) =>
              LET before == simulations[rq[t].id]
                  after == simulations'[rq[t].id]
                  kept == {c \in rq[t].arg.cells :
                             /\ 0 <= c.x /\ c.x < before.width
                             /\ 0 <= c.y /\ c.y < before.height}
                  alive == {<<c.x, c.y>> : c \in {c \in kept : c.alive}}
              IN  /\ after.generation = before.generation
                  /\ rq[t].arg.cells # {} =>
                       /\ DOMAIN after.cells = {<<c.x, c.y>> : c \in kept}
                       /\ get_live_cells(after) = alive
                  /\ reply'[1].resp.status = "OK"
                  /\ reply'[1].resp.generation = after.generation
                  /\ reply'[1].resp.live_cells = Cardinality(get_live_cells(after))
                  /\ {<<c.x, c.y>> : c \in reply'[1].resp.cells} = get_live_cells(after)]_vars

\* An UpdateSimulation with generation 1 and three cells, one alive in the
\* grid, one dead in the grid, one outside, has answered on a simulation
\* whose cell map now has the two cells of the grid.
C17_Witness ==
    /\ reply # None
    /\ reply[1].kind = "update"
    /\ reply[1].resp.status = "OK"
    /\ reply[1].resp.generation = 1
    /\ reply[1].resp.live_cells = 1
    /\ DOMAIN simulations[reply[1].id].cells = {<<1, 1>>, <<0, 1>>}

\* C18: a CreateSimulation without initial pattern whose width and height
\* are in 1..1000 answers OK with an id that was not registered, adds
\* under it a simulation of generation 0, no cell and the requested size,
\* returns its snapshot, and leaves the other simulations as they were.
C18_CreateAddsOne ==
    [][(/\ reply' # None /\ reply'[1].kind = "create"
        /\ reply'[1].req.initial_pattern = ""
        /\ reply'[1].req.width \in 1..1000 /\ reply'[1].req.height \in 1..1000) =>
         LET id == reply'[1].id
             req == reply'[1].req
         IN  /\ reply'[1].resp.status = "OK"
             /\ id \notin DOMAIN simulations
             /\ DOMAIN simulations' = DOMAIN simulations \cup {id}
             /\ \A b \in DOMAIN simulations : simulations'[b] = simulations[b]
             /\ simulations'[id].generation = 0
             /\ DOMAIN simulations'[id].cells = {}
             /\ simulations'[id].width = req.width
             /\ simulations'[id].height = req.height
             /\ reply'[1].resp =
                  [status |-> "OK", id |-> id, generation |-> 0, live_cells |-> 0,
                   grid |-> [width |-> req.width, height |-> req.height],
                   cells |-> {}]]_vars

\* A second simulation was just created without pattern while the first
\* one has live cells.
C18_Witness ==
    /\ reply # None
    /\ reply[1].kind = "create"
    /\ reply[1].resp.status = "OK"
    /\ reply[1].req.initial_pattern = ""
    /\ \E b \in DOMAIN simulations :
          b # reply[1].id /\ get_live_cell_count(simulations[b]) > 0

\* C19: a CreateSimulation answers InvalidArgument exactly when its width or
\* height is <= 0 or > 1000, and then the registry is left as it is.
C19_CreateRejects ==
    [][(reply' # None /\ reply'[1].kind = "create") =>
         LET req == reply'[1].req
             bad == \/ req.width <= 0 \/ req.height <= 0
                    \/ req.width > 1000 \/ req.height > 1000
         IN  /\ bad <=> reply'[1].resp.status = "InvalidArgument"
             /\ bad => simulations' = simulations /\ uuid_count' = uuid_count]_vars

\* A CreateSimulation with height 1001 was just rejected while a simulation
\* is registered.
C19_Witness ==
    /\ reply # None
    /\ reply[1].kind = "create"
    /\ reply[1].resp.status = "InvalidArgument"
    /\ reply[1].req.height > 1000
    /\ DOMAIN simulations # {}

\* C20: GetSimulation, UpdateSimulation, StepSimulation, LoadPattern and
\* StreamSimulation answer NotFound exactly when the id is not registered,
\* and then the registry is left as it is and no stream exists.
C20_AbsentIsNotFound ==
    [][(reply' # None
          /\ reply'[1].kind \in {"get", "update", "step", "load", "stream"}) =>
         LET absent == reply'[1].id \notin DOMAIN simulations
         IN  /\ absent <=> reply'[1].resp.status = "NotFound"
             /\ absent => /\ simulations' = simulations
                          /\ lock_holder' = lock_holder
                          /\ reply'[1].kind = "stream"
                                => st'[reply'[1].task] = IdleStream]_vars

\* A StreamSimulation for an id that was never handed out was just refused
\* while another simulation is registered.
C20_Witness ==
    /\ reply # None
    /\ reply[1].kind = "stream"
    /\ reply[1].resp.status = "NotFound"
    /\ reply[1].id > uuid_count
    /\ DOMAIN simulations # {}

\* C21: DeleteSimulation always answers OK; success is true exactly when
\* the id was registered; after the call the id is absent and every other
\* simulation is as it was; on an absent id (a second delete included) the
\* answer is success = false and the registry is unchanged.
C21_DeleteReportsPresence ==
    [][(reply' # None /\ reply'[1].kind = "delete") =>
          LET id == reply'[1].id
              resp == reply'[1].resp
          IN  /\ resp.status = "OK"
              /\ resp.success <=> id \in DOMAIN simulations
              /\ DOMAIN simulations' = (DOMAIN simulations) \ {id}
              /\ \A k \in DOMAIN simulations' : simulations'[k] = simulations[k]
              /\ id \notin DOMAIN simulations =>
                    /\ ~resp.success
                    /\ simulations' = simulations
                    /\ uuid_count' = uuid_count
                    /\ delete_ok' = delete_ok]_vars

\* A second DeleteSimulation of an id already deleted has just answered
\* success = false.
C21_Witness ==
    /\ reply # None
    /\ reply[1].kind = "delete"
    /\ reply[1].id \in delete_ok
    /\ reply[1].resp.status = "OK"
    /\ ~reply[1].resp.success

\* C22: LoadPattern on a registered simulation with the pattern or the
\* position missing answers InvalidArgument and leaves the registry (the
\* cells and the generation of the simulation with it) unchanged.
C22_LoadMissingFieldRejected ==
    [][(/\ reply' # None
        /\ reply'[1].kind = "load"
        /\ reply'[1].id \in DOMAIN simulations
        /\ (reply'[1].req.pattern = None \/ reply'[1].req.position = None)) =>
          /\ reply'[1].resp.status = "InvalidArgument"
          /\ simulations' = simulations]_vars

\* A LoadPattern without position on a simulation holding live cells has
\* just been refused.
C22_Witness ==
    /\ reply # None
    /\ reply[1].kind = "load"
    /\ reply[1].req.position = None
    /\ reply[1].req.pattern # None
    /\ reply[1].resp.status = "InvalidArgument"
    /\ reply[1].id \in DOMAIN simulations
    /\ get_live_cell_count(simulations[reply[1].id]) > 0

C24_WrapIsModulo ==
    (epc \in {"wrap_coordinate", "wrap_position"} /\ boundary.wrap_edges) =>
        /\ wrapped = Some(<<TorusAxis(coordinate[1], boundary.width),
                            TorusAxis(coordinate[2], boundary.height)>>)
        /\ wrapped[1][1] \in 0..(boundary.width - 1)
        /\ wrapped[1][2] \in 0..(boundary.height - 1)
        /\ (wrapped[1][1] - coordinate[1]) % boundary.width = 0
        /\ (wrapped[1][2] - coordinate[2]) % boundary.height = 0

\* C25: the next generation that apply_game_of_life_rules_bounded returns
\* for a live set inside [0,width) x [0,height) lies inside that rectangle,
\* with or without wrap.
C25_NextGenerationInsideGrid ==
    epc = "bounded" =>
        \A p \in next_generation :
            /\ 0 <= p[1] /\ p[1] < boundary.width
            /\ 0 <= p[2] /\ p[2] < boundary.height

\* The run started from a translate of the block.
BlockDrawn == \E t \in PatternShifts : input_cells = Shifted(Block, t)

\* The policy is a torus with a side shorter than 3.
SmallTorus ==
    /\ boundary.kind = "bounded"
    /\ boundary.wrap_edges
    /\ (boundary.width < 3 \/ boundary.height < 3)

\* C26 as stated: under every policy whose grid contains it (unbounded,
\* bounded without wrap, bounded with wrap, the simulation of the service)
\* the block and its translates come back unchanged from every iteration of
\* the transition.
C26_BlockIsFixedPoint ==
    (epc \in Applied /\ BlockDrawn) => next_generation = input_cells

\* C26 amended: the block and its translates are a fixed point of every
\* iteration on the unbounded grid, on a bounded grid without wrap, in a
\* simulation of the service (which keeps 4 live cells) and on a wrapped
\* grid with width and height of at least 3; on a wrapped grid with a side
\* of 2 the first transition already returns another set.
C26_BlockIsFixedPointOffSmallTorus ==
    (epc \in Applied /\ BlockDrawn) =>
        IF SmallTorus
        THEN iterations = 1 => next_generation # input_cells
        ELSE /\ next_generation = input_cells
             /\ Cardinality(next_generation) = 4

\* A translate of the block has come back unchanged from the last of the
\* iterations on a wrapped 3x3 grid.
C26_Witness ==
    /\ epc = "bounded"
    /\ BlockDrawn
    /\ boundary.wrap_edges
    /\ boundary.width = 3 /\ boundary.height = 3
    /\ input_cells # Block
    /\ iterations = MaxIter
    /\ next_generation = input_cells

\* C27: from the vertical line centred at (x,y), on the unbounded grid and in
\* a simulation of the service whose grid contains the 3x3 box around (x,y),
\* every odd transition yields the horizontal line centred at (x,y) and
\* every even one the vertical line again.
C27_BlinkerOscillates ==
    \A t \in PatternShifts :
        LET x == 1 + t[1]
            y == 1 + t[2]
        IN  (/\ input_cells = VerticalBlinker(x, y)
             /\ \/ epc = "unbounded"
                \/ /\ epc = "inline"
                   /\ 1 <= x /\ x + 1 < boundary.width
                   /\ 1 <= y /\ y + 1 < boundary.height) =>
              next_generation = IF iterations % 2 = 1
                                THEN HorizontalBlinker(x, y)
                                ELSE VerticalBlinker(x, y)

\* The second transition of a simulation of the service has returned the
\* vertical line it started from.
C27_Witness ==
    /\ epc = "inline"
    /\ iterations = 2
    /\ input_cells = VerticalBlinker(1, 1)
    /\ boundary.width = 3 /\ boundary.height = 3
    /\ next_generation = input_cells

\* C28: the fourth transition of the glider {(1,0),(2,1),(0,2),(1,2),(2,2)}
\* on the unbounded grid returns exactly {(2,1),(3,2),(1,3),(2,3),(3,3)}, the
\* glider translated by (+1,+1); the same holds from every translate.
C28_GliderTranslates ==
    (epc = "unbounded" /\ iterations = 4) =>
        /\ input_cells = Glider =>
              next_generation =
                 {<<2, 1>>, <<3, 2>>, <<1, 3>>, <<2, 3>>, <<3, 3>>}
        /\ \A t \in PatternShifts :
              input_cells = Shifted(Glider, t) =>
                 next_generation = Shifted(input_cells, <<1, 1>>)

\* The fourth transition of the glider of the claim has been applied.
C28_Witness ==
    /\ epc = "unbounded"
    /\ iterations = 4
    /\ input_cells = Glider
    /\ Cardinality(next_generation) = 5
    /\ <<3, 3>> \in next_generation

\* The transition of the empty live set under every policy of the engine.
EmptyStaysEmpty ==
    /\ apply_game_of_life_rules({}, FALSE, None, None) = {}
    /\ \A w \in 1..MaxDim, h \in 1..MaxDim, wr \in BOOLEAN :
          /\ apply_game_of_life_rules({}, wr, Some(w), Some(h)) = {}
          /\ apply_game_of_life_rules_bounded(
                {}, [kind |-> "bounded", width |-> w, height |-> h,
                     wrap_edges |-> wr]) = {}

\* C29: the transition of the empty set is the empty set under every
\* policy, and a StepSimulation entered on a simulation without live cells
\* answers OK with the generation advanced by the step count, live_cells = 0
\* and changed_cells = 0, leaving the simulation without cells.
C29_EmptyStaysEmpty ==
    [][/\ EmptyStaysEmpty
       /\ \A t \in Requests :
            (/\ reply' # None
             /\ reply'[1].kind = "step"
             /\ reply'[1].task = t
             /\ reply'[1].resp.status = "OK"
             /\ get_live_cells(rq[t].entry[1]) = {}) =>
               /\ reply'[1].resp.generation =
                     rq[t].entry[1].generation + rq[t].steps
               /\ reply'[1].resp.live_cells = 0
               /\ reply'[1].resp.changed_cells = 0
               /\ simulations'[reply'[1].id].generation =
                     reply'[1].resp.generation
               /\ get_live_cells(simulations'[reply'[1].id]) = {}]_vars

\* A StepSimulation of two steps on a simulation that never held a cell has
\* just answered generation 2.
C29_Witness ==
    /\ reply # None
    /\ reply[1].kind = "step"
    /\ reply[1].resp.status = "OK"
    /\ reply[1].resp.generation = 2
    /\ reply[1].resp.live_cells = 0
    /\ reply[1].resp.changed_cells = 0
    /\ simulations[reply[1].id].cells = EmptyMap

\* C30: on the wrapped 3x3 grid apply_game_of_life_rules_bounded returns all
\* nine cells for the vertical line {(2,0),(2,1),(2,2)}.
C30_EdgeBlinkerFillsTorus ==
    (/\ epc = "bounded"
     /\ boundary.wrap_edges
     /\ boundary.width = 3 /\ boundary.height = 3
     /\ live_cells = {<<2, 0>>, <<2, 1>>, <<2, 2>>}) =>
        next_generation = (0..2) \X (0..2)

\* The transition of the line at the right edge of the wrapped 3x3 grid has
\* been applied.
C30_Witness ==
    /\ epc = "bounded"
    /\ boundary.wrap_edges
    /\ boundary.width = 3 /\ boundary.height = 3
    /\ input_cells = {<<2, 0>>, <<2, 1>>, <<2, 2>>}
    /\ iterations = 1
    /\ Cardinality(next_generation) = 9

\* The cells a pattern name stands for; the glider is the one of
\* generate_glider_pattern at the origin.
NamedPattern(name) == IF name = "glider" THEN Glider ELSE {}

\* C32: a CreateSimulation with a non-empty initial_pattern answers with a
\* simulation in which the cells of the pattern that fall inside the grid
\* are alive.
C32_CreateInsertsPattern ==
    (/\ reply # None
     /\ reply[1].kind = "create"
     /\ reply[1].resp.status = "OK"
     /\ reply[1].req.initial_pattern # "") =>
        LET sim == simulations[reply[1].id]
        IN  \A c \in NamedPattern(reply[1].req.initial_pattern) :
               (/\ 0 <= c[1] /\ c[1] < sim.width
                /\ 0 <= c[2] /\ c[2] < sim.height) =>
                  c \in get_live_cells(sim)

\* C33: the cells of an update a stream yields are exactly the live cells of
\* the simulation, as many as live_cells says, each with the number of its
\* live Moore neighbours inside the grid in the reported generation.
C33_UpdateListsLiveCellsWithCounts ==
    \A s \in Streams :
        (st[s].pc = "yield_ok" /\ st[s].sim \in DOMAIN simulations) =>
            LET u == st[s].item[1]
                sim == simulations[st[s].sim]
                live == get_live_cells(sim)
            IN  /\ {<<c.x, c.y>> : c \in u.changed_cells} = live
                /\ Cardinality(u.changed_cells) = u.live_cells
                /\ \A c \in u.changed_cells :
                      /\ c.alive
                      /\ c.neighbors =
                            RuleNeighbors(<<c.x, c.y>>, live, ServiceGrid(sim))

\* One StepSimulation step applied to a simulation: generation += 1, then
\* cells = new_cells.
StepEffect(sim) ==
    LET stepped == [sim EXCEPT !.generation = @ + 1]
    IN  [stepped EXCEPT !.cells = InlineNewCells(stepped)]

C38_PassiveStreamChangesNothing ==
    [][\A s \in Streams :
         LET auto == IF st[s].pc = "idle" THEN st'[s].auto_step
                                           ELSE st[s].auto_step
         IN  (st'[s] # st[s] /\ ~auto) =>
                /\ simulations' = simulations
                /\ (st[s].pc \in {"tick_wait", "lock_wait"}
                      /\ st[s].id \in DOMAIN simulations
                      /\ st'[s].pc \notin {"tick_wait", "lock_wait", "idle"}) =>
                        /\ st'[s].pc = "yield_ok"
                        /\ st'[s].item[1].generation =
                              simulations[st[s].id].generation
                        /\ st'[s].item[1].live_cells =
                              get_live_cell_count(simulations[st[s].id])
                        /\ st'[s].item[1].simulation_ended =
                              (get_live_cells(simulations[st[s].id]) = {})
                /\ (st[s].pc = "yield_ok" /\ st[s].item[1].live_cells = 0) =>
                        st'[s].pc = "idle"]_vars

\* A stream without auto_step is at the yield of the update of a simulation
\* of generation 2 with no live cell: simulation_ended is set.
C38_Witness ==
    \E s \in Streams :
        /\ st[s].pc = "yield_ok"
        /\ ~st[s].auto_step
        /\ st[s].item[1].simulation_ended
        /\ st[s].item[1].generation = 2
        /\ simulations[st[s].sim].generation = 2

\* C39: an UpdateSimulation with an empty cells list leaves the cell map of
\* the simulation as it was and every other simulation untouched; the
\* generation becomes the supplied one when that is > 0 and stays otherwise.
C39_EmptyUpdateKeepsCells ==
    [][\A t \in Requests :
         /\ (rq[t].pc # "update_cells" /\ rq'[t].pc = "update_cells"
               /\ rq'[t].arg.cells = {}) =>
              /\ simulations'[rq'[t].id].cells = simulations[rq'[t].id].cells
              /\ simulations'[rq'[t].id].generation =
                    IF rq'[t].arg.generation > 0 THEN rq'[t].arg.generation
                    ELSE simulations[rq'[t].id].generation
              /\ \A k \in DOMAIN simulations \ {rq'[t].id} :
                    simulations'[k] = simulations[k]
         /\ (rq[t].pc = "update_cells" /\ rq'[t] # rq[t]
               /\ rq[t].arg.cells = {}) =>
              /\ simulations' = simulations
              /\ reply'[1].resp.status = "OK"
              /\ reply'[1].resp.live_cells =
                    get_live_cell_count(simulations[rq[t].id])]_vars

\* An UpdateSimulation with generation 2 and no cells has answered for a
\* simulation that still holds its live cells.
C39_Witness ==
    /\ reply # None
    /\ reply[1].kind = "update"
    /\ reply[1].resp.status = "OK"
    /\ reply[1].resp.generation = 2
    /\ reply[1].resp.live_cells = 3
    /\ simulations[reply[1].id].generation = 2

\* C31: on a bounded grid without wrap the next generation of a live set
\* inside the grid is the next generation of the same set on the unbounded
\* grid, cut to [0,width) x [0,height).
C31_BoundedIsClippedUnbounded ==
    (epc = "bounded" /\ ~boundary.wrap_edges) =>
        next_generation =
           {p \in apply_game_of_life_rules(live_cells, FALSE, None, None) :
               /\ 0 <= p[1] /\ p[1] < boundary.width
               /\ 0 <= p[2] /\ p[2] < boundary.height}

\* The line at the right edge of the 3x3 grid without wrap has become
\* {(1,1),(2,1)}: the birth at (3,1) is cut off.
C31_Witness ==
    /\ epc = "bounded"
    /\ ~boundary.wrap_edges
    /\ boundary.width = 3 /\ boundary.height = 3
    /\ live_cells = {<<2, 0>>, <<2, 1>>, <<2, 2>>}
    /\ next_generation = {<<1, 1>>, <<2, 1>>}

\* C35: one iteration of the transition coded in step_simulation leaves the
\* live set apply_game_of_life_rules_bounded returns for the live cells of
\* the simulation under Bounded(width, height, wrap = false).
C35_InlineIsBoundedEngine ==
    epc = "inline" =>
        next_generation =
           apply_game_of_life_rules_bounded(
              live_cells, [kind |-> "bounded", width |-> boundary.width,
                           height |-> boundary.height, wrap_edges |-> FALSE])

\* The transition of the service was applied to a full 3x3 simulation: the
\* four corners are left.
C35_Witness ==
    /\ epc = "inline"
    /\ boundary.width = 3 /\ boundary.height = 3
    /\ Cardinality(live_cells) = 9
    /\ next_generation = {<<0, 0>>, <<0, 2>>, <<2, 0>>, <<2, 2>>}

\* C36: for every wrapped grid and every live set inside it,
\* apply_game_of_life_rules(live, true, Some(width), Some(height)) returns the
\* set apply_game_of_life_rules_bounded returns with wrap_edges.
C36_WrappingEntryPointsAgree ==
    epc = "wrapping" =>
        next_generation = apply_game_of_life_rules_bounded(live_cells, boundary)

\* C34: one update of the chain (neighbor_counting_system,
\* cell_lifecycle_system, cleanup_system) turns the entity positions into the
\* next generation of the rule on the unbounded grid, with one live entity
\* per position and no dead entity left, and adds exactly 1 to
\* SimulationState.generation.
C34_UpdateIsOneGeneration ==
    (schedule.pc = "neighbor_counting" /\ schedule.updates >= 1) =>
        /\ EntityPositions =
              RuleNext(schedule.positions,
                       [kind |-> "unbounded", width |-> 0, height |-> 0,
                        wrap_edges |-> FALSE])
        /\ \A e \in DOMAIN entities : entities[e].alive
        /\ \A e, f \in DOMAIN entities :
              entities[e].position = entities[f].position => e = f
        /\ simulation_state.generation = schedule.generation + 1

\* An update has turned the three cells (0,0), (1,0), (0,1) into the block:
\* the ghost spawned at (1,1) was born.
C34_Witness ==
    /\ schedule.pc = "neighbor_counting" /\ schedule.updates = 1
    /\ schedule.positions = {<<0, 0>>, <<1, 0>>, <<0, 1>>}
    /\ EntityPositions = {<<0, 0>>, <<1, 0>>, <<0, 1>>, <<1, 1>>}
    /\ simulation_state.generation = 1

\* C40: prepare_transition(N) on a GridState with live set L leaves L and
\* sets pending_births = N \ L and pending_deaths = L \ N (disjoint, births
\* outside L, deaths inside L); an apply_transition() that follows leaves
\* live_cells = N and both pending sets empty.
C40_TransitionReachesTarget ==
    [][/\ grid_op'.op = "prepare_transition" =>
            /\ grid_state'.live_cells = grid_state.live_cells
            /\ grid_state'.pending_births = grid_op'.arg \ grid_state.live_cells
            /\ grid_state'.pending_deaths = grid_state.live_cells \ grid_op'.arg
            /\ grid_state'.pending_births \cap grid_state'.pending_deaths = {}
            /\ grid_state'.pending_births \cap grid_state.live_cells = {}
            /\ grid_state'.pending_deaths \subseteq grid_state.live_cells
       /\ (grid_op.op = "prepare_transition"
              /\ grid_op'.op = "apply_transition") =>
            /\ grid_state'.live_cells = grid_op.arg
            /\ grid_state'.pending_births = {}
            /\ grid_state'.pending_deaths = {}]_vars

\* prepare_transition({(1,0),(2,0)}) was followed by apply_transition: the
\* live set is the target, nothing is pending.
C40_Witness ==
    /\ grid_op.op = "apply_transition"
    /\ grid_op.after = "prepare_transition"
    /\ grid_op.after_arg = {<<1, 0>>, <<2, 0>>}
    /\ grid_state.live_cells = {<<1, 0>>, <<2, 0>>}
    /\ grid_state.pending_births = {} /\ grid_state.pending_deaths = {}

(***************************************************************************)
(* Termination of the stream of a deleted simulation: two streams, a       *)
(* client that creates and deletes.                                        *)
(***************************************************************************)
LiveStreams == {<<"stream", 1>>, <<"stream", 2>>}

LiveInit ==
    /\ simulations = EmptyMap
    /\ uuid_count = 0
    /\ lock_holder = NoTask
    /\ rq = [t \in Requests |-> IdleRequest]
    /\ st = [s \in LiveStreams |-> IdleStream]
    /\ delete_ok = {} /\ reply = None
    /\ EngineOff /\ WorldOff /\ GridOff

LiveNext ==
    \/ \E t \in Requests :
          CreateCall(t) \/ CreateRun(t) \/ DeleteCall(t) \/ DeleteRun(t)
    \/ \E s \in LiveStreams : StreamStep(s)

\* The runtime polls every task that can make progress; the tokio Mutex
\* queues its waiters, so a waiter gets the guard once it is released; the
\* transport ends a stream after its error item.  Nothing makes a subscriber
\* take an update.
LiveFairness ==
    /\ \A t \in Requests : SF_vars(CreateRun(t))
    /\ \A t \in Requests : SF_vars(DeleteRun(t))
    /\ \A s \in LiveStreams :
          /\ WF_vars(StreamTick(s))
          /\ SF_vars(StreamVerify(s))
          /\ SF_vars(StreamAcquire(s))
          /\ WF_vars(StreamCells(s))
          /\ WF_vars(st[s].pc = "yield_err" /\ (StreamResume(s) \/ StreamDrop(s)))

LiveSpec == LiveInit /\ [][LiveNext]_vars /\ LiveFairness

\* C5: a stream that is active on a deleted simulation eventually
\* terminates, whatever the other tasks do.
C5_DeletedStreamTerminates ==
    \A s \in LiveStreams :
        (st[s].pc \in {"tick_wait", "lock_wait"} /\ st[s].id \in delete_ok)
            ~> (st[s].pc = "idle")

====
